---- MODULE Spec2Model ----
(***************************************************************************)
(* Radial menu (TDS_radialMenu): the preset store, the geometry engine,    *)
(* the editor preview widget (RadialMenuWidget) with its editor dialog     *)
(* (buildRadialMenu_UI) and the popup (RadialMenu).                        *)
(*                                                                         *)
(* Angles are Python floats (IEEE-754 binary64).  They are modelled        *)
(* exactly: a float x with 0 <= x < 1024 that is a multiple of 2^-53 is    *)
(* the triple <<h, m, l>> of base-2^21 limbs of the integer x * 2^53.      *)
(* Every angle the geometry code computes is such a number; each           *)
(* arithmetic operation rounds to 53 significant bits, ties to even, as    *)
(* the hardware does.                                                      *)
(***************************************************************************)
EXTENDS Integers, Sequences, FiniteSets, TLC

Min(S) == CHOOSE x \in S : \A y \in S : x <= y

\* ------------------------------------------------------------------ floats

Limb == 2048 * 1024                      \* 2^21

RECURSIVE Pow2(_)
Pow2(s) == IF s = 0 THEN 1 ELSE 2 * Pow2(s - 1)

\* number of low bits that do not fit the 53-bit significand
RECURSIVE Shift(_)
Shift(h) == IF h < 2048 THEN 0 ELSE 1 + Shift(h \div 2)

\* carry / borrow propagation; the total must be >= 0
FNorm(h, m, l) ==
    LET m1 == m + (l \div Limb)
    IN  << h + (m1 \div Limb), m1 % Limb, l % Limb >>

FInt(k) == << k * 2048, 0, 0 >>          \* the float of a small integer k

FZero == FInt(0)
F360 == FInt(360)

FLt(x, y) ==
    \/ x[1] < y[1]
    \/ x[1] = y[1] /\ x[2] < y[2]
    \/ x[1] = y[1] /\ x[2] = y[2] /\ x[3] < y[3]

FLe(x, y) == ~ FLt(y, x)

\* round an exact value to the nearest float, ties to even
FRound(x) ==
    LET s == Shift(x[1])
        q == Pow2(s)
        r == x[3] % q
        odd == (x[3] \div q) % 2 = 1
        up == (2 * r > q) \/ (2 * r = q /\ odd)
    IN  IF s = 0 THEN x
        ELSE FNorm(x[1], x[2], (x[3] - r) + (IF up THEN q ELSE 0))

FAdd(x, y) == FRound(FNorm(x[1] + y[1], x[2] + y[2], x[3] + y[3]))

\* x - y for x >= y
FSub(x, y) == FRound(FNorm(x[1] - y[1], x[2] - y[2], x[3] - y[3]))

\* i * x for a small integer i >= 0
FMulInt(i, x) == FRound(FNorm(i * x[1], i * x[2], i * x[3]))

\* x / 2 (exact for every x >= 1.0 and every half-integer)
FHalf(x) ==
    << x[1] \div 2,
       (x[2] + (x[1] % 2) * Limb) \div 2,
       (x[3] + (x[2] % 2) * Limb) \div 2 >>

\* k / n for integers k, n with 1 <= n <= k: the correctly rounded quotient
FDivInt(k, n) ==
    LET h0 == k * 2048
        qh == h0 \div n
        r1 == h0 % n
        qm == (r1 * Limb) \div n
        r2 == (r1 * Limb) % n
        ql == (r2 * Limb) \div n
        rem == (r2 * Limb) % n
        s == Shift(qh)
        q == Pow2(s)
        r == ql % q
        odd == (ql \div q) % 2 = 1
        twice == 2 * (r * n + rem)
        up == (twice > q * n) \/ (twice = q * n /\ odd)
    IN  FNorm(qh, qm, (ql - r) + (IF up THEN q ELSE 0))

\* Python's x % 360 for x >= 0 (fmod is exact)
RECURSIVE FMod360(_)
FMod360(x) == IF FLt(x, F360) THEN x
              ELSE FMod360(FNorm(x[1] - F360[1], x[2], x[3]))

\* Python's (a + b) % 360 for a, b >= 0
FAddMod360(a, b) == FMod360(FAdd(a, b))

\* Python's (a - b) % 360 for a, b >= 0: a negative difference -d gives
\* fmod(-d, 360) = -(d mod 360), and a non-zero result has 360 added to it
FSubMod360(a, b) ==
    IF FLe(b, a) THEN FMod360(FSub(a, b))
    ELSE LET d == FMod360(FSub(b, a))
         IN  IF d = FZero THEN FZero ELSE FSub(F360, d)


\* ---------------------------------------------------------------- geometry

None == "None"                           \* Python None, for label references

Max2(a, b) == IF a >= b THEN a ELSE b

\* the largest number of inner sectors and of children the tables below hold
GeomMaxN == 12
MaxKids == 3
MaxEdits == 2           \* edits by the context menu and the dialog buttons in one run

\* calculate_angles over n labels: label i (0-based) sits at
\* (270 + i * (360 / n)) % 360
AnglesOf(n) ==
    [i \in 1..n |-> FAddMod360(FInt(270), FMulInt(i - 1, FDivInt(360, n)))]

\* The angles depend on the number of labels only; they are computed once,
\* for every number of labels that occurs.
AngleTable == [n \in 1..GeomMaxN |-> AnglesOf(n)]

calculate_angles(order) ==
    IF order = <<>> THEN <<>> ELSE AngleTable[Len(order)]

\* step / 2 for step = 360 / n
HalfStep(n) == FHalf(FDivInt(360, n))

\* min_a and max_a of the band around the angle a in get_sector_from_angle
BandOf(a, half) == << FSubMod360(a, half), FAddMod360(a, half) >>

\* the bands of every dict of angles calculate_angles returns, computed once
BandTable ==
    [n \in 1..GeomMaxN |-> [i \in 1..n |-> BandOf(AngleTable[n][i], HalfStep(n))]]

\* a band that has its end and not its start: (min_a, max_a]
SectorBandHasEnd(angle, band) ==
    IF FLt(band[1], band[2])
    THEN FLt(band[1], angle) /\ FLe(angle, band[2])
    ELSE FLt(band[1], angle) \/ FLe(angle, band[2])

\* the test of one band [min_a, max_a), which may wrap at 360
SectorBandHas(angle, band) ==
    IF FLt(band[1], band[2])
    THEN FLe(band[1], angle) /\ FLt(angle, band[2])
    ELSE FLe(band[1], angle) \/ FLt(angle, band[2])

\* get_sector_from_angle over the dict inner_angles (keys `order`, values
\* `angles`, in insertion order, as calculate_angles returned them): the
\* first band that has the angle
get_sector_from_angle(angle, order, angles) ==
    IF angles = <<>> THEN None
    ELSE LET bands == BandTable[Len(angles)]
             hits == {i \in 1..Len(angles) : SectorBandHas(angle, bands[i])}
         IN  IF hits = {} THEN None ELSE order[Min(hits)]

\* get_child_angles for num children around the parent's angle: the arc
\* [start, start + 25) of each child
ChildArcsOf(center_angle, num) ==
    LET step == FInt(25)
        total_arc == FMulInt(num, step)
        start_angle == FSubMod360(center_angle, FHalf(total_arc))
    IN  [i \in 1..num |->
            LET min_a == FAddMod360(start_angle, FMulInt(i - 1, step))
            IN  << min_a, FAddMod360(min_a, step) >>]

\* the child arcs for every parent angle and number of children (the edits of
\* a run can add MaxEdits children to a sector), computed once
ChildArcTable ==
    [n \in 1..GeomMaxN |->
        [i \in 1..n |-> [num \in 1..MaxKids + MaxEdits |->
                            ChildArcsOf(AngleTable[n][i], num)]]]

\* ------------------------------------------------ ordered dicts and nodes

\* An OrderedDict is a sequence of entries [k |-> key, v |-> value].
Keys(d) == [i \in 1..Len(d) |-> d[i].k]
HasKey(d, key) == \E i \in 1..Len(d) : d[i].k = key
IndexOf(seq, x) == CHOOSE i \in 1..Len(seq) : seq[i] = x
Lookup(d, key) == d[IndexOf(Keys(d), key)].v
InSeq(seq, x) == \E i \in 1..Len(seq) : seq[i] = x

\* a child node (a dict with four text entries)
Leaf(desc, cmd, rel, dbl) ==
    [description |-> desc, command |-> cmd, on_release |-> rel, on_double |-> dbl]

\* an inner-sector node; ckey tells whether the "children" key is present
Node(desc, cmd, rel, dbl, kids, hasKids) ==
    [description |-> desc, command |-> cmd, on_release |-> rel,
     on_double |-> dbl, children |-> kids, ckey |-> hasKids]

\* {} as returned by inner_sections.get(label, {})
EmptyNode == Node("", "", "", "", <<>>, FALSE)

\* inner_sections.get(label, {})
NodeOf(sections, label) ==
    IF HasKey(sections, label) THEN Lookup(sections, label) ELSE EmptyNode

\* inner_sections.get(label, {}).get("children", {})
ChildrenOf(sections, label) ==
    LET nd == NodeOf(sections, label)
    IN  IF nd.ckey THEN nd.children ELSE <<>>

\* "children" in inner_sections.get(label, {})
HasChildrenKey(sections, label) == NodeOf(sections, label).ckey

\* hovered_children is None or a dict of children
NoKids == [isNone |-> TRUE, kids |-> <<>>]
Kids(d) == [isNone |-> FALSE, kids |-> d]
Truthy(h) == Len(h.kids) > 0

\* the info dict handed to the script runners; has = FALSE stands for None
NoInfo == [has |-> FALSE, command |-> "", on_release |-> "", on_double |-> ""]
InfoOf(nd) == [has |-> TRUE, command |-> nd.command,
               on_release |-> nd.on_release, on_double |-> nd.on_double]

\* get_child_angles: the arc of each child of the active sector (requires
\* active to be a key of inner_angles when children are shown)
get_child_angles(active, hovered, order, angles) ==
    IF active = None \/ ~ Truthy(hovered) THEN <<>>
    ELSE ChildArcTable[Len(angles)][IndexOf(order, active)][Len(hovered.kids)]

\* the KeyError of inner_angles[active_sector] in get_child_angles
ChildAnglesKeyError(active, hovered, order) ==
    active # None /\ Truthy(hovered) /\ ~ InSeq(order, active)

\* get_outer_sector_from_angle: the first child arc [start, start + 25) that
\* has the angle; the child angles are recomputed from the widget's fields
get_outer_sector_from_angle(angle, active, hovered, order, angles) ==
    LET child_arcs == get_child_angles(active, hovered, order, angles)
        hits == {i \in 1..Len(child_arcs) : SectorBandHas(angle, child_arcs[i])}
    IN  IF hits = {} THEN None ELSE hovered.kids[Min(hits)].k

\* ------------------------------------------------------------ sizes (ui.size)

radius == 150
ring_gap == 5
outer_ring_width == 25
inner_hole == Max2(0, (radius * 35) \div 100)        \* max(0, int(radius * 0.35))
outer_radius == radius + ring_gap + outer_ring_width
HYST == Max2(12, (outer_ring_width * 6) \div 10)     \* max(12, int(width * 0.6))
ring_inner_with_hyst == Max2(inner_hole, (radius + ring_gap) - HYST)
ring_outer_with_hyst == outer_radius + HYST

\* ------------------------------------------------------- the sampled inputs

\* A pointer position is an angle in degrees and a distance from the centre.
At(angle, dist) == [a |-> angle, d |-> dist]
InHole == {At(30, 20)}                                  \* inside the hole
InAnnulus == {At(260, 100), At(30, 100), At(150, 100)}  \* inner ring
InOverlap == {At(30, 145)}           \* inner ring, inside the hysteresis extension
InChildBand == {At(260, 170), At(280, 170), At(30, 170)}
InOuterHyst == {At(260, 190)}        \* hysteresis extension outside the band
FarOut == {At(260, 250)}
Pos == InHole \cup InAnnulus \cup InOverlap \cup InChildBand \cup InOuterHyst \cup FarOut

MaxWrites == 1          \* document edits by the editor in one run
MaxExecuted == 2        \* script bodies run by the popups in one run
MaxToggles == 1         \* set_preset_active / smart-mode switches in one run

\* ------------------------------------------------------ the stored document

DefaultSections ==
    << [k |-> "N", v |-> Node("North", "cN", "rN", "dN",
                              << [k |-> "new_child", v |-> Leaf("n1", "c1", "r1", "d1")],
                                 [k |-> "k2", v |-> Leaf("n2", "c2", "", "")] >>, TRUE)],
       [k |-> "E", v |-> Node("East", "cE", "", "",
                              << [k |-> "new_child", v |-> Leaf("e1", "c3", "", "")] >>, TRUE)],
       [k |-> "S", v |-> Node("South", "", "", "", <<>>, FALSE)] >>

BSections == << [k |-> "X", v |-> Node("X", "cX", "", "dX", <<>>, FALSE)] >>

\* the starter section create_preset gives a brand-new preset
CSections == << [k |-> "New Section", v |-> Node("New Section", "", "", "", <<>>, TRUE)] >>

\* the colour block _default_colour_from_data gives, and a customised one
DefaultColour == "default colours"
CustomColour == "custom colours"

\* one entry of "presets"
Preset(active, colour, sections) ==
    [active |-> active, colour |-> colour, inner_section |-> sections]

InitDoc ==
    [active_preset |-> "Default",
     presets |-> << [k |-> "Default", v |-> Preset(TRUE, DefaultColour, DefaultSections)],
                    [k |-> "B", v |-> Preset(TRUE, CustomColour, BSections)],
                    [k |-> "C", v |-> Preset(FALSE, DefaultColour, CSections)] >>]

\* ------------------------------------------------- the file as it is written

\* One key of a JSON object that may be missing: has = FALSE is a missing key
\* (val is then the empty value of the key's type).
Missing(empty) == [has |-> FALSE, val |-> empty]
Given(v) == [has |-> TRUE, val |-> v]

\* "ui"."size": its six entries; child_angle_multiplier and text_scale are
\* held in hundredths (100 is 1.0)
Size(r, g, w, m, h, t) ==
    [radius |-> r, ring_gap |-> g, outer_ring_width |-> w,
     child_angle_multiplier |-> m, inner_hole_radius |-> h, text_scale |-> t]

NoSize == Size(Missing(0), Missing(0), Missing(0), Missing(0), Missing(0), Missing(0))

\* the "ui" key, and its "size" key
Ui(has, has_size, size) == [has |-> has, has_size |-> has_size, size |-> size]
NoUi == Ui(FALSE, FALSE, NoSize)

\* one entry of "presets" as written: each of its keys may be missing
FilePreset(active, colour, sections) ==
    [active |-> active, colour |-> colour, inner_section |-> sections]

\* the whole document: "presets" may be missing (legacy schema), and then the
\* sectors are under a top-level "inner_section"
FileDoc(has_presets, inner_section, active_preset, presets, ui) ==
    [has_presets |-> has_presets, inner_section |-> inner_section,
     active_preset |-> active_preset, presets |-> presets, ui |-> ui]

\* OrderedDict(pairs), as json.load builds every object with
\* object_pairs_hook=OrderedDict: a repeated key keeps the place of its first
\* occurrence and takes the value of its last
RECURSIVE OrderedDictOf(_)
OrderedDictOf(pairs) ==
    IF pairs = <<>> THEN <<>>
    ELSE LET init == OrderedDictOf(SubSeq(pairs, 1, Len(pairs) - 1))
             last == pairs[Len(pairs)]
         IN  IF HasKey(init, last.k)
             THEN [i \in 1..Len(init) |-> IF init[i].k = last.k THEN last ELSE init[i]]
             ELSE Append(init, last)

\* json.load(f, object_pairs_hook=OrderedDict) of the text
json_load(text) ==
    [text EXCEPT
        !.inner_section.val = OrderedDictOf(@),
        !.presets = [i \in 1..Len(@) |->
                        [k |-> @[i].k,
                         v |-> [@[i].v EXCEPT !.inner_section.val = OrderedDictOf(@)]]]]

\* the entries of a dict as json.dump writes them: each once, in insertion order
Items(d) == [i \in 1..Len(d) |-> [k |-> d[i].k, v |-> d[i].v]]

\* a dump that writes "active_preset" and "presets" only
json_dump_no_ui(doc) ==
    [doc EXCEPT
        !.inner_section.val = Items(@),
        !.presets = [i \in 1..Len(@) |->
                        [k |-> @[i].k,
                         v |-> [@[i].v EXCEPT !.inner_section.val = Items(@)]]],
        !.ui = NoUi]

\* json.dump(data, f, indent=4): the text that _save_data leaves in the file
json_dump(doc) ==
    [doc EXCEPT
        !.inner_section.val = Items(@),
        !.presets = [i \in 1..Len(@) |->
                        [k |-> @[i].k,
                         v |-> [@[i].v EXCEPT !.inner_section.val = Items(@)]]]]

\* a wrap that forgets the legacy sectors
MigratedEmpty(d) ==
    FileDoc(TRUE, Missing(<<>>), Given("Default"),
            << [k |-> "Default",
                v |-> FilePreset(Missing(FALSE), Missing(""), Given(<<>>))] >>,
            NoUi)

\* the legacy document wrapped into a Default preset (lines 44-52): the new
\* dict has "active_preset" and "presets" only
Migrated(d) ==
    FileDoc(TRUE, Missing(<<>>), Given("Default"),
            << [k |-> "Default",
                v |-> FilePreset(Missing(FALSE), Missing(""), Given(d.inner_section.val))] >>,
            NoUi)

\* "active_preset" not in data or data["active_preset"] not in data["presets"]
ActiveInvalid(d) ==
    ~ d.active_preset.has \/ ~ HasKey(d.presets, d.active_preset.val)

\* data["active_preset"] = next(iter(data["presets"].keys()))
ActiveRepaired(d) == [d EXCEPT !.active_preset = Given(d.presets[1].k)]

SetDefault(entry, dflt) == IF entry.has THEN entry ELSE Given(dflt)

\* the setdefault calls on data["ui"]["size"] (lines 62-69); the default of
\* inner_hole_radius is max(0, int(radius * 0.35)) of the radius just ensured
SizeDefaults(ui) ==
    Ui(TRUE, TRUE, Size(SetDefault(ui.size.radius, 150), SetDefault(ui.size.ring_gap, 5),
                        SetDefault(ui.size.outer_ring_width, 25),
                        SetDefault(ui.size.child_angle_multiplier, 100),
                        SetDefault(ui.size.inner_hole_radius,
                                   Max2(0, (SetDefault(ui.size.radius, 150).val * 35) \div 100)),
                        SetDefault(ui.size.text_scale, 100)))

\* some preset has no "colour" (sets `changed`)
ColourMissing(d) == \E i \in 1..Len(d.presets) : ~ d.presets[i].v.colour.has

\* the backfill loop (lines 74-79): a colour block and an inner_section for
\* every preset that lacks one
Backfilled(d) ==
    [d EXCEPT !.presets =
        [i \in 1..Len(@) |->
            [k |-> @[i].k,
             v |-> [@[i].v EXCEPT !.colour = SetDefault(@, DefaultColour),
                                  !.inner_section = SetDefault(@, <<>>)]]]]

\* _load_data from its last step back to its first: what it returns, what it
\* leaves in the file, and what it did
Load3(text, legacy, fixed, sized, saved2, d3) ==
    [data |-> Backfilled(d3),
     file |-> IF ColourMissing(d3) THEN json_dump(Backfilled(d3)) ELSE saved2,
     before |-> text, legacy |-> legacy, fixed |-> fixed, sized |-> sized,
     changed |-> ColourMissing(d3)]

Load2(text, legacy, fixed, saved2, d2) ==
    Load3(text, legacy, fixed, d2.ui # SizeDefaults(d2.ui), saved2,
          [d2 EXCEPT !.ui = SizeDefaults(@)])

Load1(text, legacy, saved1, d1) ==
    IF ActiveInvalid(d1)
    THEN Load2(text, legacy, TRUE, json_dump(ActiveRepaired(d1)), ActiveRepaired(d1))
    ELSE Load2(text, legacy, FALSE, saved1, d1)

Load0(text, d0) ==
    IF ~ d0.has_presets
    THEN Load1(text, TRUE, json_dump(Migrated(d0)), Migrated(d0))
    ELSE Load1(text, FALSE, text, d0)

Loaded(text) == Load0(text, json_load(text))

\* the file of the document the widgets start from: every key present, the
\* global size at its defaults
DefaultUi == Ui(TRUE, TRUE, Size(Given(150), Given(5), Given(25), Given(100), Given(52), Given(100)))

FileOf(doc, ui) ==
    FileDoc(TRUE, Missing(<<>>), Given(doc.active_preset),
            [i \in 1..Len(doc.presets) |->
                [k |-> doc.presets[i].k,
                 v |-> FilePreset(Given(doc.presets[i].v.active),
                                  Given(doc.presets[i].v.colour),
                                  Given(doc.presets[i].v.inner_section))]],
            ui)

InitFile == FileOf(InitDoc, DefaultUi)

\* nothing loaded yet
NoData == FileDoc(FALSE, Missing(<<>>), Missing(""), <<>>, NoUi)
NoLoad == [before |-> NoData, legacy |-> FALSE, fixed |-> FALSE, sized |-> FALSE,
           changed |-> FALSE, loaded |-> FALSE, after |-> "none", repaired_before |-> FALSE]

\* the size spin boxes before the editor window exists
NoSpins == [open |-> FALSE, radius |-> 0, ring_gap |-> 0, outer_w |-> 0,
            child_angle_mult |-> 0, inner_hole |-> 0, text_scale |-> 0]

\* --------------------------------------------------------------- the state

VARIABLES
    disk,                   \* the JSON document (menuInfo file)
    smart_enabled,          \* _SMART_PRESET["enabled"]
    session,                \* which widget the run drives: "editor" or "popup"
    inner_sections, inner_order, inner_angles,
    active_sector, outer_active_sector, hovered_children,
    _sticky_parent, _sticky_child,
    _dragging_label, _drag_hover_target,
    _dragging_child, _child_drag_hover_target,
    _preview_name, preset_combo,
    hiddenLabel, hiddenType, hiddenParent,
    label_lineEdit, scriptEditor, releaseEditor, doubleEditor, descEditor,
    _parent_anchor, _pending_click_sector, _click_timer,
    visible, grabbed,
    cursor,                 \* position of the last pointer event
    lastOp,                 \* the handler that ran last
    raised,                 \* the last handler was left by an exception
    executed,               \* script bodies run by the current popup
    picked_parent,          \* history: the parent under which _sticky_child was clicked
    mmb_down,               \* the middle button is held (editor)
    writes, toggles,        \* counters capped by MaxWrites / MaxToggles
    ret,                    \* the last store call: its arguments, the document
                            \* on disk before it, and the value it returned
    radial_enabled,         \* the radial_enabled dicts of the two modules
    _rmb_detector_ref,      \* the _rmb_detector_ref dicts of the two modules
    detectors,              \* every RightClickHoldDetector constructed so far
    app_filters,            \* the application's event filters, in install order
    menus,                  \* every RadialMenu the detectors constructed
    grabber,                \* the popup that holds the mouse grab (0: none)
    det_log,                \* what the last right-button event did
    file,                   \* the menuInfo file as written: every key it holds
    data,                   \* the document the last _load_data() returned
    ld,                     \* what that _load_data() read and which repairs it made
    spins,                  \* the editor's size spin boxes
    _CLIPBOARD,             \* the module's copy / paste clipboard
    ctx                     \* the last editor command: what it was given and found

storeVars == << disk, smart_enabled >>
hoverVars == << active_sector, outer_active_sector, hovered_children >>
sectionVars == << inner_sections, inner_order, inner_angles >>
stickyVars == << _sticky_parent, _sticky_child, picked_parent >>
dragVars == << _dragging_label, _drag_hover_target, _dragging_child, _child_drag_hover_target >>
previewVars == << _preview_name, preset_combo >>
hiddenVars == << hiddenLabel, hiddenType, hiddenParent >>
editorVars == << label_lineEdit, scriptEditor, releaseEditor, doubleEditor, descEditor >>
popupVars == << _parent_anchor, _pending_click_sector, _click_timer, visible, grabbed, executed >>
auxVars == << session, mmb_down, writes, toggles >>
detVars == << radial_enabled, _rmb_detector_ref, detectors, app_filters, menus, grabber,
             det_log >>
loadVars == << file, data, ld, spins >>
menuVars == << _CLIPBOARD, ctx >>
extVars == << ret, detVars, loadVars, menuVars >>

vars == << storeVars, hoverVars, sectionVars, stickyVars, dragVars, previewVars,
           hiddenVars, editorVars, popupVars, auxVars, extVars, cursor, lastOp,
           raised >>

\* _active_preset(data)
PresetOf(doc, name) == Lookup(doc.presets, name)
_active_preset(doc) == PresetOf(doc, doc.active_preset)
list_presets(doc) == Keys(doc.presets)

\* no pending click (None)
NoPending == [kind |-> None, key |-> None, info |-> NoInfo, set |-> FALSE]

\* the widget fields both constructors set from the active preset
LoadedFrom(sections) ==
    /\ inner_sections = sections
    /\ inner_order = Keys(sections)
    /\ inner_angles = calculate_angles(Keys(sections))
    /\ active_sector = None
    /\ outer_active_sector = None
    /\ hovered_children = NoKids

EditorIdle ==
    /\ _sticky_parent = None /\ _sticky_child = None /\ picked_parent = None
    /\ _dragging_label = None /\ _drag_hover_target = None
    /\ _dragging_child = None /\ _child_drag_hover_target = None
    /\ _preview_name = None
    /\ hiddenLabel = "" /\ hiddenType = "" /\ hiddenParent = ""
    /\ label_lineEdit = "" /\ scriptEditor = "" /\ releaseEditor = ""
    /\ doubleEditor = "" /\ descEditor = ""

PopupIdle ==
    /\ _parent_anchor = None
    /\ _pending_click_sector = NoPending
    /\ _click_timer = FALSE
    /\ executed = 0

\* no store function has been called yet
NoCall == [op |-> "none", name |-> None, clone_from |-> None, value |-> None,
           before |-> [active_preset |-> None, presets |-> <<>>]]

StoreIdle == ret = NoCall

\* no detector (None is 0 among detector and popup ids)
NoDetector == 0

\* no popup
NoMenu == 0

\* nothing dispatched yet
NoLog == [kind |-> "none", modifier |-> FALSE, in_viewport |-> FALSE,
          calls |-> <<>>, handled |-> <<>>]

\* the module-level state of radialMenu_main and radialWidget when both are
\* imported: no detector installed, both radial_enabled dicts ON
DetectorIdle ==
    /\ radial_enabled = [main |-> TRUE, widget |-> TRUE]
    /\ _rmb_detector_ref = [main |-> [instance |-> NoDetector, scriptJob |-> FALSE],
                            widget |-> [instance |-> NoDetector, scriptJob |-> FALSE]]
    /\ detectors = <<>>
    /\ app_filters = <<>>
    /\ menus = <<>>
    /\ grabber = NoMenu
    /\ det_log = NoLog

\* _CLIPBOARD = {"type": None, "label": "", "payload": None}
NoClip == [type |-> None, label |-> "", payload |-> EmptyNode]

\* no editor command yet
NoCtx == [op |-> "none", zone |-> "none", parent |-> None, child |-> None, label |-> ""]

MenuIdle == _CLIPBOARD = NoClip /\ ctx = NoCtx

\* no _load_data call recorded, the size controls not built
LoadIdle ==
    /\ file = InitFile
    /\ data = NoData
    /\ ld = NoLoad
    /\ spins = NoSpins

\* after RadialMenuWidget.__init__ + buildRadialMenu_UI.__init__ (editor), or
\* after RadialMenu.__init__ (popup, opened centred on the pointer)
Init ==
    /\ disk = InitDoc
    /\ smart_enabled = FALSE
    /\ session \in {"editor", "popup"}
    /\ LoadedFrom(_active_preset(InitDoc).inner_section)
    /\ EditorIdle
    /\ PopupIdle
    /\ preset_combo = InitDoc.active_preset
    /\ visible = TRUE
    /\ grabbed = (session = "popup")
    /\ cursor = At(30, 20)
    /\ lastOp = "init"
    /\ raised = FALSE
    /\ mmb_down = FALSE
    /\ writes = 0 /\ toggles = 0
    /\ StoreIdle
    /\ DetectorIdle
    /\ LoadIdle
    /\ MenuIdle

\* ------------------------------------------- editor preview: RadialMenuWidget

\* every pointer event records where and what it was
Event(p, op) == cursor' = p /\ lastOp' = op

\* a clearing that empties the hidden fields and the label only
FieldsClearedPartly ==
    /\ hiddenLabel' = "" /\ hiddenType' = "" /\ hiddenParent' = ""
    /\ label_lineEdit' = ""
    /\ UNCHANGED << scriptEditor, releaseEditor, doubleEditor, descEditor >>

\* the editor text fields emptied (the eight setText("") / clear() calls)
FieldsCleared ==
    /\ hiddenLabel' = "" /\ hiddenType' = "" /\ hiddenParent' = ""
    /\ label_lineEdit' = "" /\ scriptEditor' = "" /\ releaseEditor' = ""
    /\ doubleEditor' = "" /\ descEditor' = ""

\* the editor fields filled from a node
FieldsShow(label, type, parent, nd) ==
    /\ hiddenLabel' = label /\ hiddenType' = type /\ hiddenParent' = parent
    /\ label_lineEdit' = label
    /\ scriptEditor' = nd.command /\ releaseEditor' = nd.on_release
    /\ doubleEditor' = nd.on_double /\ descEditor' = nd.description

\* _clear_selection_state with its line for the children left out: what the
\* state would be if the shown children survived a clear
clear_selection_keeps_children ==
    /\ _sticky_parent' = None /\ _sticky_child' = None /\ picked_parent' = None
    /\ active_sector' = None /\ outer_active_sector' = None
    /\ UNCHANGED hovered_children

_clear_selection_state ==
    /\ _sticky_parent' = None /\ _sticky_child' = None /\ picked_parent' = None
    /\ active_sector' = None /\ outer_active_sector' = None
    /\ hovered_children' = NoKids

\* children of a child lookup: children.get(label, {})
LeafOf(kids, label) ==
    IF HasKey(kids, label) THEN Lookup(kids, label) ELSE Leaf("", "", "", "")

InBand(d) == radius + ring_gap <= d /\ d <= outer_radius      \* inclusive (hover)
InBandX(d) == radius + ring_gap < d /\ d <= outer_radius      \* exclusive (clicks)

RadialMenuWidget_mouseMoveEvent(p) ==
    LET angle == FInt(p.a)
        distance == p.d
        sector_at_angle == get_sector_from_angle(angle, inner_order, inner_angles)
    IN
    /\ session = "editor"
    /\ Event(p, "move") /\ raised' = FALSE
    /\ IF _sticky_parent # None THEN
          \* a sticky parent stays active and shows its children
          LET kids == Kids(ChildrenOf(inner_sections, _sticky_parent)) IN
          /\ active_sector' = _sticky_parent
          /\ hovered_children' = kids
          /\ outer_active_sector' =
                IF ~ Truthy(kids) THEN None
                ELSE IF InBand(distance)
                THEN get_outer_sector_from_angle(angle, _sticky_parent, kids,
                                                 inner_order, inner_angles)
                ELSE IF HasKey(kids.kids, _sticky_child) THEN _sticky_child ELSE None
          /\ UNCHANGED stickyVars
       ELSE IF inner_hole <= distance /\ distance <= radius THEN
          \* inside the inner ring annulus
          /\ active_sector' = sector_at_angle
          /\ outer_active_sector' = None
          /\ hovered_children' =
                IF sector_at_angle # None /\ HasChildrenKey(inner_sections, sector_at_angle)
                THEN Kids(NodeOf(inner_sections, sector_at_angle).children)
                ELSE NoKids
          /\ UNCHANGED stickyVars
       ELSE IF /\ ring_inner_with_hyst <= distance
               /\ distance <= ring_outer_with_hyst
               /\ Truthy(hovered_children) THEN
          \* in or near the child ring
          LET act == IF active_sector = None /\ sector_at_angle # None
                     THEN sector_at_angle ELSE active_sector IN
          /\ active_sector' = act
          /\ outer_active_sector' =
                IF InBand(distance)
                THEN get_outer_sector_from_angle(angle, act, hovered_children,
                                                 inner_order, inner_angles)
                ELSE None
          /\ UNCHANGED << hovered_children, stickyVars >>
       ELSE _clear_selection_state
    /\ UNCHANGED << storeVars, sectionVars, dragVars, previewVars, hiddenVars,
                    editorVars, popupVars, auxVars, extVars >>

\* left button: select / toggle select
RadialMenuWidget_mousePressEvent_Left(p) ==
    \E lab \in {get_sector_from_angle(FInt(p.a), inner_order, inner_angles)} :
    \E tgt_child \in {IF InBandX(p.d) /\ Truthy(hovered_children)
                       THEN get_outer_sector_from_angle(FInt(p.a), active_sector,
                                hovered_children, inner_order, inner_angles)
                       ELSE None} :
    \E parent_label \in {IF _sticky_parent # None THEN _sticky_parent
                          ELSE IF active_sector # None THEN active_sector ELSE ""} :
    /\ session = "editor"
    /\ Event(p, "pressL") /\ raised' = FALSE
    /\ IF p.d <= radius /\ inner_order # <<>> /\ lab # None THEN
          IF hiddenType = "inner" /\ hiddenLabel = lab THEN
             \* toggle OFF
             /\ _sticky_parent' = None
             /\ active_sector' = None
             /\ hovered_children' = NoKids
             /\ outer_active_sector' = None
             /\ FieldsCleared
             /\ UNCHANGED << _sticky_child, picked_parent >>
          ELSE
             \* toggle ON to this parent
             /\ _sticky_parent' = lab
             /\ active_sector' = lab
             /\ hovered_children' = Kids(ChildrenOf(inner_sections, lab))
             /\ outer_active_sector' = None
             /\ FieldsShow(lab, "inner", "", NodeOf(inner_sections, lab))
             /\ UNCHANGED << _sticky_child, picked_parent >>
       ELSE IF InBandX(p.d) /\ Truthy(hovered_children) /\ tgt_child # None THEN
          IF hiddenType = "child" /\ hiddenLabel = tgt_child /\ hiddenParent = parent_label THEN
             \* toggle OFF child
             /\ FieldsCleared
             /\ _clear_selection_state
          ELSE
             \* select this child, keep the parent locked
             \E sp \in {IF parent_label # "" THEN parent_label ELSE _sticky_parent} :
             \E sec \in {IF parent_label # ""
                         THEN LeafOf(ChildrenOf(inner_sections, parent_label), tgt_child)
                         ELSE Leaf("", "", "", "")} :
             /\ outer_active_sector' = tgt_child
             /\ FieldsShow(tgt_child, "child", parent_label, sec)
             /\ _sticky_parent' = sp
             /\ _sticky_child' = tgt_child
             /\ picked_parent' = sp
             /\ active_sector' = sp
             /\ hovered_children' = IF sp # None THEN Kids(ChildrenOf(inner_sections, sp))
                                    ELSE NoKids
       ELSE
          \* clicked elsewhere
          /\ _sticky_parent' = None
          /\ active_sector' = None
          /\ hovered_children' = NoKids
          /\ outer_active_sector' = None
          /\ FieldsCleared
          /\ UNCHANGED << _sticky_child, picked_parent >>
    /\ UNCHANGED << storeVars, sectionVars, dragVars, previewVars, popupVars, auxVars, extVars >>

\* middle button: start a drag-reorder of an inner sector or of a child
RadialMenuWidget_mousePressEvent_Middle(p) ==
    \E lab \in {get_sector_from_angle(FInt(p.a), inner_order, inner_angles)} :
    \E tgt_child \in {IF InBandX(p.d) /\ Truthy(hovered_children)
                       THEN get_outer_sector_from_angle(FInt(p.a), active_sector,
                                hovered_children, inner_order, inner_angles)
                       ELSE None} :
    /\ session = "editor"
    /\ ~ mmb_down
    /\ writes < MaxWrites
    /\ Event(p, "pressM") /\ raised' = FALSE
    /\ mmb_down' = TRUE
    /\ IF p.d <= radius /\ inner_order # <<>> THEN
          IF lab # None THEN
             /\ _dragging_label' = lab
             /\ _drag_hover_target' = lab
             /\ active_sector' = lab
             /\ hovered_children' = NoKids
             /\ outer_active_sector' = None
             /\ UNCHANGED << _dragging_child, _child_drag_hover_target >>
          ELSE UNCHANGED << dragVars, hoverVars >>
       ELSE IF InBandX(p.d) /\ Truthy(hovered_children) /\ tgt_child # None THEN
          /\ _dragging_child' = tgt_child
          /\ _child_drag_hover_target' = tgt_child
          /\ outer_active_sector' = tgt_child
          /\ UNCHANGED << _dragging_label, _drag_hover_target, active_sector, hovered_children >>
       ELSE UNCHANGED << dragVars, hoverVars >>
    /\ UNCHANGED << storeVars, sectionVars, stickyVars, previewVars, hiddenVars,
                    editorVars, popupVars, session, extVars, writes, toggles >>

\* a list with the entries at i and j exchanged
Swap(seq, i, j) ==
    [n \in 1..Len(seq) |-> IF n = i THEN seq[j] ELSE IF n = j THEN seq[i] ELSE seq[n]]

\* OrderedDict((k, d[k]) for k in order if k in d)
RECURSIVE Reordered(_, _)
Reordered(d, order) ==
    IF order = <<>> THEN <<>>
    ELSE LET rest == Reordered(d, Tail(order))
         IN  IF HasKey(d, Head(order))
             THEN << [k |-> Head(order), v |-> Lookup(d, Head(order))] >> \o rest
             ELSE rest

\* the document with one preset's inner_section replaced
WithSections(doc, pname, sections) ==
    [doc EXCEPT !.presets =
        [i \in 1..Len(doc.presets) |->
            IF doc.presets[i].k = pname
            THEN [k |-> pname, v |-> [doc.presets[i].v EXCEPT !.inner_section = sections]]
            ELSE doc.presets[i]]]

\* the sections with one sector's children replaced
WithChildren(sections, label, kids) ==
    [i \in 1..Len(sections) |->
        IF sections[i].k = label
        THEN [k |-> label, v |-> [sections[i].v EXCEPT !.children = kids, !.ckey = TRUE]]
        ELSE sections[i]]

\* _get_preset_for_write: the name of the preset the widget writes to
_get_preset_for_write(doc) ==
    LET pname == IF _preview_name # None THEN _preview_name ELSE doc.active_preset
    IN  IF HasKey(doc.presets, pname) THEN pname ELSE doc.active_preset

\* data["presets"].get(pname, OrderedDict()).get("inner_section", OrderedDict())
\* with pname = _preview_name or get_active_preset()
ShownSections(doc) ==
    LET pname == IF _preview_name # None THEN _preview_name ELSE doc.active_preset
    IN  IF HasKey(doc.presets, pname) THEN PresetOf(doc, pname).inner_section ELSE <<>>

\* target = self.get_sector_from_angle(angle) or self._drag_hover_target,
\* when dist <= inner_r
InnerDropTarget(p) ==
    LET at == get_sector_from_angle(FInt(p.a), inner_order, inner_angles)
    IN  IF p.d <= radius
        THEN (IF at # None THEN at ELSE _drag_hover_target)
        ELSE None

\* the drop of an inner drag swaps, but a dragged or target label is no
\* longer in inner_order
InnerDropFails(p) ==
    \E target \in {InnerDropTarget(p)} :
        /\ target # None /\ target # _dragging_label
        /\ ~ (InSeq(inner_order, _dragging_label) /\ InSeq(inner_order, target))

\* the document after the dragged label and `target` are swapped and saved
InnerDropDoc(target) ==
    LET pname == _get_preset_for_write(disk)
        order1 == Swap(inner_order, IndexOf(inner_order, _dragging_label),
                       IndexOf(inner_order, target))
    IN  WithSections(disk, pname, Reordered(PresetOf(disk, pname).inner_section, order1))

\* target_child = self.get_outer_sector_from_angle(angle, ...) or
\* self._child_drag_hover_target, when outer_inner < dist <= outer_outer
ChildDropTarget(p) ==
    LET at == get_outer_sector_from_angle(FInt(p.a), active_sector, hovered_children,
                                          inner_order, inner_angles)
    IN  IF InBandX(p.d)
        THEN (IF at # None THEN at ELSE _child_drag_hover_target)
        ELSE None

\* the document after the dragged child and `target_child` are swapped under
\* the active sector and saved
ChildDropDoc(pname, inner, children, target_child) ==
    LET order1 == Swap(Keys(children), IndexOf(Keys(children), _dragging_child),
                       IndexOf(Keys(children), target_child))
    IN  WithSections(disk, pname,
                     WithChildren(inner, active_sector, Reordered(children, order1)))

RadialMenuWidget_mouseReleaseEvent_Middle(p) ==
    /\ session = "editor"
    /\ mmb_down
    /\ cursor' = p /\ lastOp' = "releaseM"
    /\ mmb_down' = FALSE
    /\ IF _dragging_label # None /\ InnerDropFails(p) THEN
          \* inner_order.index(...) raises ValueError: the handler is left
          /\ raised' = TRUE
          /\ UNCHANGED << disk, writes, sectionVars, hoverVars, dragVars >>
       ELSE IF _dragging_label # None THEN
          \* finish inner drag
          \E target \in {InnerDropTarget(p)} :
          \E moved \in {target # None /\ target # _dragging_label} :
          \E doc1 \in {IF moved THEN InnerDropDoc(target) ELSE disk} :
          \E sections1 \in {IF moved THEN ShownSections(doc1) ELSE inner_sections} :
          \E angles1 \in {calculate_angles(Keys(sections1))} :
             /\ raised' = FALSE
             /\ disk' = doc1
             /\ writes' = IF moved THEN writes + 1 ELSE writes
             /\ inner_sections' = sections1
             /\ inner_order' = Keys(sections1)
             /\ inner_angles' = angles1
             /\ hovered_children' =
                   IF moved /\ active_sector # None /\ HasChildrenKey(sections1, active_sector)
                   THEN Kids(NodeOf(sections1, active_sector).children)
                   ELSE hovered_children
             /\ _dragging_label' = None
             /\ _drag_hover_target' = None
             /\ active_sector' = IF p.d <= radius
                                 THEN get_sector_from_angle(FInt(p.a), Keys(sections1), angles1)
                                 ELSE active_sector
             /\ UNCHANGED << outer_active_sector, _dragging_child, _child_drag_hover_target >>
       ELSE IF _dragging_child # None THEN
          \* finish child drag
          \E target_child \in {ChildDropTarget(p)} :
          \E pname \in {_get_preset_for_write(disk)} :
          \E inner \in {PresetOf(disk, pname).inner_section} :
          \E children \in {ChildrenOf(inner, active_sector)} :
          \E moved_ok \in {/\ target_child # None /\ target_child # _dragging_child
                           /\ active_sector # None
                           /\ HasKey(inner, active_sector)
                           /\ HasKey(children, _dragging_child)
                           /\ HasKey(children, target_child)} :
          \E doc1 \in {IF moved_ok THEN ChildDropDoc(pname, inner, children, target_child)
                       ELSE disk} :
          \E sections1 \in {ShownSections(doc1)} :
          \E angles1 \in {calculate_angles(Keys(sections1))} :
          \E kids1 \in {IF active_sector # None /\ HasChildrenKey(sections1, active_sector)
                        THEN Kids(NodeOf(sections1, active_sector).children)
                        ELSE NoKids} :
             /\ raised' = FALSE
             /\ disk' = doc1
             /\ writes' = IF moved_ok THEN writes + 1 ELSE writes
             /\ _dragging_child' = None
             /\ _child_drag_hover_target' = None
             /\ inner_sections' = sections1
             /\ inner_order' = Keys(sections1)
             /\ inner_angles' = angles1
             /\ hovered_children' = kids1
             /\ outer_active_sector' =
                   IF moved_ok /\ InBandX(p.d) /\ Truthy(kids1)
                   THEN get_outer_sector_from_angle(FInt(p.a), active_sector, kids1,
                                                    Keys(sections1), angles1)
                   ELSE outer_active_sector
             /\ UNCHANGED << active_sector, _dragging_label, _drag_hover_target >>
       ELSE raised' = FALSE /\ UNCHANGED << disk, writes, sectionVars, hoverVars, dragVars >>
    /\ UNCHANGED << smart_enabled, stickyVars, previewVars, hiddenVars, editorVars,
                    popupVars, session, extVars, toggles >>

\* the step without the modulo: it stops at both ends of the list
StepNameClamped(names, cur, step) ==
    LET idx == IF InSeq(names, cur) THEN IndexOf(names, cur) ELSE 1
        to == idx + step
    IN  names[IF to < 1 THEN 1 ELSE IF to > Len(names) THEN Len(names) ELSE to]

\* names[(idx + step) % len(names)]
StepName(names, cur, step) ==
    LET idx == IF InSeq(names, cur) THEN IndexOf(names, cur) - 1 ELSE 0
    IN  names[((idx + step + Len(names)) % Len(names)) + 1]

\* RadialMenuWidget._refresh_hover_from_cursor, run on freshly cleared hover
\* state over `sections`: the resulting active sector, children and child
EditorHoverOver(p, parent, ch, order, angles) ==
    IF p.d < inner_hole THEN
         [active |-> None, kids |-> NoKids, outer |-> None]
    ELSE IF InBandX(p.d) THEN
         [active |-> parent, kids |-> ch,
          outer |-> IF Truthy(ch)
                    THEN get_outer_sector_from_angle(FInt(p.a), parent, ch, order, angles)
                    ELSE None]
    ELSE IF inner_hole <= p.d /\ p.d <= radius THEN
         [active |-> parent, kids |-> IF Truthy(ch) THEN ch ELSE NoKids, outer |-> None]
    ELSE [active |-> None, kids |-> NoKids, outer |-> None]

EditorHoverParent(p, sections, parent) ==
    EditorHoverOver(p, parent, Kids(ChildrenOf(sections, parent)),
                    Keys(sections), calculate_angles(Keys(sections)))

EditorRefreshHover(p, sections) ==
    EditorHoverParent(p, sections,
        get_sector_from_angle(FInt(p.a), Keys(sections), calculate_angles(Keys(sections))))

\* a preview that saved the previewed name, as set_active_preset does
PreviewSavesActive(doc, name) == [doc EXCEPT !.active_preset = name]

\* what _preview_preset(name) leaves on disk: it loads, it never saves
PreviewSaves(doc, name) == doc

\* wheel over the preview: cycle the previewed preset, never the saved one
RadialMenuWidget_wheelEvent(p, step) ==
    \E names \in {list_presets(disk)} :
    \E cur \in {IF _preview_name # None THEN _preview_name ELSE disk.active_preset} :
    \E fallback \in {IF InSeq(names, cur) THEN cur ELSE disk.active_preset} :
    \E new_name \in {StepName(names, fallback, step)} :
    \E sections \in {PresetOf(disk, new_name).inner_section} :
    \E hov \in {EditorRefreshHover(p, sections)} :
    /\ session = "editor"
    /\ Event(p, IF step = 1 THEN "wheel_fwd" ELSE "wheel_back") /\ raised' = FALSE
    /\ IF \/ _dragging_label # None \/ _dragging_child # None
          \/ p.d > outer_radius
          \/ Len(names) <= 1
       THEN UNCHANGED << disk, hoverVars, sectionVars, stickyVars, previewVars,
                         hiddenVars, editorVars >>
       ELSE
          \* _preview_preset(new_name)
          /\ disk' = PreviewSaves(disk, new_name)
          /\ _preview_name' = new_name
          /\ inner_sections' = sections
          /\ inner_order' = Keys(sections)
          /\ inner_angles' = calculate_angles(Keys(sections))
          /\ _sticky_parent' = None /\ _sticky_child' = None /\ picked_parent' = None
          \* _refresh_hover_from_cursor()
          /\ active_sector' = hov.active
          /\ hovered_children' = hov.kids
          /\ outer_active_sector' = hov.outer
          \* preset_previewed -> _on_preset_previewed
          /\ preset_combo' = new_name
          /\ FieldsCleared
    /\ UNCHANGED << smart_enabled, dragVars, popupVars, auxVars, extVars >>

NewLabels == << "new_section", "new_section_1", "new_section_2" >>

\* the first of new_section, new_section_1, ... that is not a key yet
FreshLabel(inner) ==
    NewLabels[Min({i \in 1..Len(NewLabels) : ~ HasKey(inner, NewLabels[i])})]

\* the editor's "add inner" button
add_inner ==
    LET inner == PresetOf(disk, preset_combo).inner_section
        label == FreshLabel(inner)
        nd == Node(label, "print_" \o label, "", "", <<>>, FALSE)
        inner1 == Append(inner, [k |-> label, v |-> nd])
    IN
    /\ session = "editor"
    /\ writes < MaxWrites
    /\ writes' = writes + 1
    /\ lastOp' = "add_inner" /\ raised' = FALSE
    /\ disk' = WithSections(disk, preset_combo, inner1)
    \* _refresh_preview
    /\ inner_sections' = inner1
    /\ inner_order' = Keys(inner1)
    /\ inner_angles' = calculate_angles(Keys(inner1))
    /\ FieldsShow(label, "inner", "", nd)
    /\ UNCHANGED << smart_enabled, hoverVars, stickyVars, dragVars, previewVars,
                    popupVars, session, extVars, mmb_down, toggles, cursor >>

\* the user picks another preset in the editor's combo box: the commit
_on_preset_changed(name) ==
    LET sections == PresetOf(disk, name).inner_section IN
    /\ session = "editor"
    /\ name # preset_combo
    /\ lastOp' = "commit" /\ raised' = FALSE
    /\ preset_combo' = name
    /\ disk' = [disk EXCEPT !.active_preset = name]          \* set_active_preset
    /\ _preview_name' = name
    /\ inner_sections' = sections
    /\ inner_order' = Keys(sections)
    /\ inner_angles' = calculate_angles(Keys(sections))
    /\ _clear_selection_state
    /\ FieldsCleared
    /\ UNCHANGED << smart_enabled, dragVars, popupVars, auxVars, extVars, cursor >>

\* ------------------------------------------------------- popup: RadialMenu

\* the outcomes of exec(compile(script)): it returns or it raises
Outcomes == {"ok", "raise"}

\* RadialMenu._sector_under_pos: the (kind, key, info) it returns and the
\* hovered_children it leaves behind; error = it raised KeyError (after it
\* had stored the children)
\* (split at the parent found at the angle, its children, and the child)
SectorUnderChild(kids, child) ==
    [hit |-> IF child # None
             THEN [kind |-> "child", key |-> child,
                   info |-> InfoOf(Lookup(kids.kids, child)), set |-> TRUE]
             ELSE [kind |-> None, key |-> None, info |-> NoInfo, set |-> TRUE],
     kids |-> kids, error |-> FALSE]

SectorUnderKids(p, parent, kids) ==
    IF p.d <= radius /\ inner_angles # <<>> THEN
       [hit |-> [kind |-> "inner", key |-> parent,
                 info |-> IF parent # None /\ HasKey(inner_sections, parent)
                          THEN InfoOf(Lookup(inner_sections, parent)) ELSE NoInfo,
                 set |-> TRUE],
        kids |-> hovered_children, error |-> FALSE]
    ELSE IF InBandX(p.d) /\ parent # None THEN
       IF ChildAnglesKeyError(active_sector, kids, inner_order)
       THEN [hit |-> [kind |-> None, key |-> None, info |-> NoInfo, set |-> TRUE],
             kids |-> kids, error |-> TRUE]
       ELSE SectorUnderChild(kids,
               IF Truthy(kids)
               THEN get_outer_sector_from_angle(FInt(p.a), active_sector, kids,
                                                inner_order, inner_angles)
               ELSE None)
    ELSE [hit |-> [kind |-> None, key |-> None, info |-> NoInfo, set |-> TRUE],
          kids |-> hovered_children, error |-> FALSE]

SectorUnderParent(p, parent) ==
    SectorUnderKids(p, parent, Kids(ChildrenOf(inner_sections, parent)))

_sector_under_pos(p) ==
    SectorUnderParent(p, get_sector_from_angle(FInt(p.a), inner_order, inner_angles))

\* releaseMouse(); close()
Closed == grabbed' = FALSE /\ visible' = FALSE

RadialMenu_mouseMoveEvent(p) ==
    LET angle == FInt(p.a)
        distance == p.d
        sector_at_angle == get_sector_from_angle(angle, inner_order, inner_angles)
    IN
    /\ session = "popup" /\ visible
    /\ Event(p, "move")
    /\ raised' = (/\ inner_hole <= distance /\ ~ (distance <= radius)
                  /\ Truthy(hovered_children) /\ _parent_anchor # None
                  /\ InBand(distance)
                  /\ ChildAnglesKeyError(_parent_anchor, hovered_children, inner_order))
    /\ IF distance < inner_hole THEN
          /\ active_sector' = None /\ outer_active_sector' = None
          /\ hovered_children' = NoKids /\ _parent_anchor' = None
       ELSE IF distance <= radius THEN
          /\ active_sector' = sector_at_angle
          /\ outer_active_sector' = None
          /\ IF sector_at_angle # None /\ HasChildrenKey(inner_sections, sector_at_angle)
             THEN /\ hovered_children' = Kids(NodeOf(inner_sections, sector_at_angle).children)
                  /\ _parent_anchor' = sector_at_angle
             ELSE /\ hovered_children' = NoKids
                  /\ _parent_anchor' = None
       ELSE IF /\ ring_inner_with_hyst <= distance
               /\ distance <= ring_outer_with_hyst
               /\ Truthy(hovered_children)
               /\ _parent_anchor # None THEN
          /\ active_sector' = _parent_anchor
          /\ outer_active_sector' =
                IF ~ InBand(distance) THEN None
                ELSE IF ChildAnglesKeyError(_parent_anchor, hovered_children, inner_order)
                THEN outer_active_sector                  \* KeyError: left as it was
                ELSE get_outer_sector_from_angle(angle, _parent_anchor, hovered_children,
                                                 inner_order, inner_angles)
          /\ UNCHANGED << hovered_children, _parent_anchor >>
       ELSE
          /\ active_sector' = None /\ outer_active_sector' = None
          /\ hovered_children' = NoKids /\ _parent_anchor' = None
    /\ UNCHANGED << storeVars, sectionVars, stickyVars, dragVars, previewVars, hiddenVars,
                    editorVars, _pending_click_sector, _click_timer, visible, grabbed,
                    executed, auxVars, extVars >>

\* left press: remember what is clicked, do not fire yet
RadialMenu_mousePressEvent_Left(p) ==
    \E under \in {_sector_under_pos(p)} :
    /\ session = "popup" /\ visible
    /\ Event(p, "pressL") /\ raised' = under.error
    /\ _pending_click_sector' = IF under.error THEN _pending_click_sector ELSE under.hit
    /\ hovered_children' = under.kids
    /\ UNCHANGED << storeVars, sectionVars, active_sector, outer_active_sector, stickyVars,
                    dragVars, previewVars, hiddenVars, editorVars, _parent_anchor,
                    _click_timer, visible, grabbed, executed, auxVars, extVars >>

\* left release: start the single-click timer
RadialMenu_mouseReleaseEvent_Left ==
    /\ session = "popup" /\ visible
    /\ lastOp' = "releaseL" /\ raised' = FALSE
    /\ _click_timer' = IF _pending_click_sector.set /\ _pending_click_sector.info.has
                       THEN TRUE ELSE _click_timer
    /\ UNCHANGED << storeVars, sectionVars, hoverVars, stickyVars, dragVars, previewVars,
                    hiddenVars, editorVars, _parent_anchor, _pending_click_sector,
                    visible, grabbed, executed, auxVars, extVars, cursor >>

\* right or middle release: run the release script of what is hovered
RadialMenu_mouseReleaseEvent_Right(outcome) ==
    LET info == IF outer_active_sector # None /\ Truthy(hovered_children)
                THEN (IF HasKey(hovered_children.kids, outer_active_sector)
                      THEN InfoOf(Lookup(hovered_children.kids, outer_active_sector))
                      ELSE NoInfo)
                ELSE IF active_sector # None /\ HasKey(inner_sections, active_sector)
                THEN InfoOf(Lookup(inner_sections, active_sector))
                ELSE NoInfo
        \* _run_release: on_release, else command
        script == IF info.on_release # "" THEN info.on_release ELSE info.command
        runs == info.has /\ script # ""
    IN
    /\ session = "popup" /\ visible
    /\ executed < MaxExecuted
    /\ lastOp' = "releaseR"
    /\ executed' = IF runs THEN executed + 1 ELSE executed
    /\ IF runs /\ outcome = "raise"
       THEN /\ raised' = TRUE
            /\ UNCHANGED << _click_timer, _pending_click_sector, visible, grabbed >>
       ELSE /\ raised' = FALSE
            /\ _click_timer' = FALSE
            /\ _pending_click_sector' = NoPending
            /\ Closed
    /\ UNCHANGED << storeVars, sectionVars, hoverVars, stickyVars, dragVars, previewVars,
                    hiddenVars, editorVars, _parent_anchor, auxVars, extVars, cursor >>

RadialMenu_mouseDoubleClickEvent(p, outcome) ==
    \E under \in {_sector_under_pos(p)} :
    \E info \in {under.hit.info} :
    \E runs \in {~ under.error /\ info.has /\ info.on_double # ""} :     \* _run_double
    /\ session = "popup" /\ visible
    /\ executed < MaxExecuted
    /\ cursor' = p /\ lastOp' = "double"
    /\ _click_timer' = FALSE
    /\ hovered_children' = under.kids
    /\ executed' = IF runs THEN executed + 1 ELSE executed
    /\ IF under.error \/ (runs /\ outcome = "raise")
       THEN raised' = TRUE /\ UNCHANGED << visible, grabbed >>
       ELSE raised' = FALSE /\ Closed
    /\ UNCHANGED << storeVars, sectionVars, active_sector, outer_active_sector, stickyVars,
                    dragVars, previewVars, hiddenVars, editorVars, _parent_anchor,
                    _pending_click_sector, auxVars, extVars >>

\* the single-shot debounce timer elapses
_fire_pending_single_click(outcome) ==
    LET info == _pending_click_sector.info
        runs == info.has /\ info.command # ""             \* _run_command
    IN
    /\ session = "popup" /\ visible
    /\ _click_timer
    /\ executed < MaxExecuted
    /\ lastOp' = "timer"
    /\ _click_timer' = FALSE
    /\ IF ~ _pending_click_sector.set
       THEN /\ raised' = FALSE
            /\ UNCHANGED << executed, _pending_click_sector, visible, grabbed >>
       ELSE /\ executed' = IF runs THEN executed + 1 ELSE executed
            /\ IF runs /\ outcome = "raise"
               THEN raised' = TRUE /\ UNCHANGED << _pending_click_sector, visible, grabbed >>
               ELSE raised' = FALSE /\ _pending_click_sector' = NoPending /\ Closed
    /\ UNCHANGED << storeVars, sectionVars, hoverVars, stickyVars, dragVars, previewVars,
                    hiddenVars, editorVars, _parent_anchor, auxVars, extVars, cursor >>

\* RadialMenu._refresh_hover_from_cursor over `sections` (it leaves
\* _parent_anchor alone)
PopupHoverOver(p, parent, kids, order, angles) ==
    IF p.d < inner_hole THEN
         [active |-> None, kids |-> NoKids, outer |-> None]
    ELSE IF p.d <= radius THEN
         [active |-> parent, kids |-> IF parent # None THEN kids ELSE NoKids,
          outer |-> None]
    ELSE IF InBandX(p.d) THEN
         [active |-> parent, kids |-> IF parent # None THEN kids ELSE NoKids,
          outer |-> IF parent # None /\ Truthy(kids)
                    THEN get_outer_sector_from_angle(FInt(p.a), parent, kids, order, angles)
                    ELSE None]
    ELSE [active |-> None, kids |-> NoKids, outer |-> None]

PopupHoverParent(p, sections, parent) ==
    PopupHoverOver(p, parent, Kids(ChildrenOf(sections, parent)),
                   Keys(sections), calculate_angles(Keys(sections)))

PopupRefreshHover(p, sections) ==
    PopupHoverParent(p, sections,
        get_sector_from_angle(FInt(p.a), Keys(sections), calculate_angles(Keys(sections))))

\* the loop of RadialMenu.wheelEvent: the first of the len(names) presets
\* after idx in the scroll direction whose "active" entry is true, or the
\* current name when there is none
RECURSIVE CycleFrom(_, _, _, _)
CycleFrom(doc, name, step, left) ==
    IF left = 0 THEN doc.active_preset
    ELSE LET new_name == StepName(list_presets(doc), name, step)
         IN  IF PresetOf(doc, new_name).active THEN new_name
             ELSE CycleFrom(doc, new_name, step, left - 1)

RadialMenu_wheelEvent(p, step) ==
    \E names \in {list_presets(disk)} :
    \E new_name \in {CycleFrom(disk, disk.active_preset, step, Len(names))} :
    \E doc1 \in {[disk EXCEPT !.active_preset = new_name]} :
    \E sections \in {_active_preset(doc1).inner_section} :
    \E hov \in {PopupRefreshHover(p, sections)} :
    /\ session = "popup" /\ visible
    /\ Event(p, IF step = 1 THEN "wheel_fwd" ELSE "wheel_back") /\ raised' = FALSE
    /\ IF smart_enabled \/ Len(names) <= 1
       THEN UNCHANGED << disk, sectionVars, hoverVars >>
       ELSE /\ disk' = doc1
            /\ inner_sections' = sections
            /\ inner_order' = Keys(sections)
            /\ inner_angles' = calculate_angles(Keys(sections))
            /\ active_sector' = hov.active
            /\ hovered_children' = hov.kids
            /\ outer_active_sector' = hov.outer
    /\ UNCHANGED << smart_enabled, stickyVars, dragVars, previewVars, hiddenVars,
                    editorVars, popupVars, auxVars, extVars >>

\* a new popup is constructed (the previous one is closed)
RadialMenu_init ==
    LET sections == _active_preset(disk).inner_section IN
    /\ session = "popup" /\ ~ visible
    /\ lastOp' = "open" /\ raised' = FALSE
    /\ cursor' = At(30, 20)
    /\ inner_sections' = sections
    /\ inner_order' = Keys(sections)
    /\ inner_angles' = calculate_angles(Keys(sections))
    /\ active_sector' = None /\ outer_active_sector' = None /\ hovered_children' = NoKids
    /\ _parent_anchor' = None
    /\ _pending_click_sector' = NoPending
    /\ _click_timer' = FALSE
    /\ executed' = 0
    /\ visible' = TRUE /\ grabbed' = TRUE
    /\ UNCHANGED << storeVars, stickyVars, dragVars, previewVars, hiddenVars,
                    editorVars, auxVars, extVars >>

\* ------------------------------------------------- store operations (module)

set_preset_active(name, state) ==
    /\ session = "popup"
    /\ toggles < MaxToggles
    /\ toggles' = toggles + 1
    /\ HasKey(disk.presets, name)
    /\ lastOp' = "set_preset_active" /\ raised' = FALSE
    /\ disk' = [disk EXCEPT !.presets =
                  [i \in 1..Len(disk.presets) |->
                      IF disk.presets[i].k = name
                      THEN [k |-> name, v |-> [disk.presets[i].v EXCEPT !.active = state]]
                      ELSE disk.presets[i]]]
    /\ UNCHANGED << smart_enabled, sectionVars, hoverVars, stickyVars, dragVars, previewVars,
                    hiddenVars, editorVars, popupVars, session, extVars, mmb_down, writes, cursor >>

set_smart_preset_enabled(state) ==
    /\ session = "popup"
    /\ toggles < MaxToggles
    /\ toggles' = toggles + 1
    /\ lastOp' = "set_smart" /\ raised' = FALSE
    /\ smart_enabled' = state
    /\ UNCHANGED << disk, sectionVars, hoverVars, stickyVars, dragVars, previewVars,
                    hiddenVars, editorVars, popupVars, session, extVars, mmb_down, writes, cursor >>

\* -------------------------------------------------------- the state machines

Steps == {-1, 1}
PresetNames == {"Default", "B", "C"}

\* Hover and selection: pointer moves, left clicks and middle-button drags
\* over the editor preview (with the editor's "add inner" button), pointer
\* moves and left presses over the popup (with its wheel).
Next ==
    \/ \E p \in Pos : RadialMenuWidget_mouseMoveEvent(p)
    \/ \E p \in Pos : RadialMenuWidget_mousePressEvent_Left(p)
    \/ \E p \in {At(260, 100), At(260, 170)} : RadialMenuWidget_mousePressEvent_Middle(p)
    \/ \E p \in {At(30, 100), At(280, 170)} : RadialMenuWidget_mouseReleaseEvent_Middle(p)
    \/ add_inner
    \/ \E p \in Pos : RadialMenu_mouseMoveEvent(p)
    \/ \E p \in InAnnulus \cup InChildBand : RadialMenu_mousePressEvent_Left(p)
    \/ \E p \in InAnnulus \cup InChildBand, step \in Steps : RadialMenu_wheelEvent(p, step)

Spec == Init /\ [][Next]_vars

\* Preset cycling: the wheel over the editor preview and over the popup, the
\* editor's preset combo, and the store switches the popup's wheel reads.
WheelPos == InHole \cup {At(260, 100), At(260, 170)} \cup FarOut

NextPreview ==
    \/ \E p \in WheelPos, step \in Steps : RadialMenuWidget_wheelEvent(p, step)
    \/ \E name \in PresetNames : _on_preset_changed(name)
    \/ \E p \in InAnnulus \cup InChildBand : RadialMenuWidget_mouseMoveEvent(p)
    \/ \E p \in InAnnulus : RadialMenuWidget_mousePressEvent_Left(p)
    \/ \E p \in {At(260, 100)} : RadialMenuWidget_mousePressEvent_Middle(p)
    \/ \E p \in {At(260, 100)} : RadialMenuWidget_mouseReleaseEvent_Middle(p)
    \/ add_inner
    \/ \E p \in WheelPos, step \in Steps : RadialMenu_wheelEvent(p, step)
    \/ \E p \in InAnnulus : RadialMenu_mouseMoveEvent(p)
    \/ \E name \in PresetNames, st \in BOOLEAN : set_preset_active(name, st)
    \/ \E st \in BOOLEAN : set_smart_preset_enabled(st)

SpecPreview == Init /\ [][NextPreview]_vars

\* Drag-reorder in the editor preview.
NextDrag ==
    \/ \E p \in Pos : RadialMenuWidget_mouseMoveEvent(p)
    \/ \E p \in InAnnulus : RadialMenuWidget_mousePressEvent_Left(p)
    \/ \E p \in Pos : RadialMenuWidget_mousePressEvent_Middle(p)
    \/ \E p \in Pos : RadialMenuWidget_mouseReleaseEvent_Middle(p)

\* the editor window has been opened
InitDrag == Init /\ session = "editor"

SpecDrag == InitDrag /\ [][NextDrag]_vars

\* Triggers of the popup: clicks, releases, the debounce timer.
NextClick ==
    \/ \E p \in Pos : RadialMenu_mouseMoveEvent(p)
    \/ \E p \in Pos : RadialMenu_mousePressEvent_Left(p)
    \/ RadialMenu_mouseReleaseEvent_Left
    \/ \E o \in Outcomes : RadialMenu_mouseReleaseEvent_Right(o)
    \/ \E p \in Pos, o \in Outcomes : RadialMenu_mouseDoubleClickEvent(p, o)
    \/ \E o \in Outcomes : _fire_pending_single_click(o)
    \/ RadialMenu_init

\* the popup has been shown
InitClick == Init /\ session = "popup"

SpecClick == InitClick /\ [][NextClick]_vars

\* Geometry: a popup over a preset of n plain sectors (n up to GeomMaxN), the
\* pointer swept round the inner ring one degree at a time.

GeomSections(n) ==
    [i \in 1..n |-> [k |-> "s" \o ToString(i),
                     v |-> Node("", "c" \o ToString(i), "", "", <<>>, FALSE)]]

GeomDoc(n) ==
    [active_preset |-> "Default",
     presets |-> << [k |-> "Default",
                     v |-> Preset(TRUE, DefaultColour, GeomSections(n))] >>]

GeomInit ==
    \E n \in 1..GeomMaxN :
        /\ disk = GeomDoc(n)
        /\ smart_enabled = FALSE
        /\ session = "popup"
        /\ LoadedFrom(GeomSections(n))
        /\ EditorIdle
        /\ PopupIdle
        /\ preset_combo = "Default"
        /\ visible = TRUE
        /\ grabbed = TRUE
        /\ cursor = At(30, 20)
        /\ lastOp = "init"
        /\ raised = FALSE
        /\ mmb_down = FALSE
        /\ writes = 0 /\ toggles = 0
        /\ StoreIdle
        /\ DetectorIdle
        /\ LoadIdle
        /\ MenuIdle

GeomNext == RadialMenu_mouseMoveEvent(At((cursor.a + 1) % 360, 100))

SpecGeom == GeomInit /\ [][GeomNext]_vars

\* ------------------------------------------------ preset store (functions)

\* _load_data: the repairs it makes to the document it read (and saves): an
\* active_preset that names no preset becomes the first preset, a preset
\* without a colour block gets the default one
_load_data(doc) ==
    [active_preset |-> IF HasKey(doc.presets, doc.active_preset) \/ doc.presets = <<>>
                       THEN doc.active_preset ELSE doc.presets[1].k,
     presets |-> [i \in 1..Len(doc.presets) |->
                    [k |-> doc.presets[i].k,
                     v |-> [doc.presets[i].v EXCEPT
                              !.colour = IF @ = None THEN DefaultColour ELSE @]]]]

\* set_active_preset(name) on a loaded document
SetActive(doc, name) ==
    IF HasKey(doc.presets, name) THEN [doc EXCEPT !.active_preset = name] ELSE doc

\* a store function was called with these arguments and returned `value`
Called(op, name, clone_from, value) ==
    /\ lastOp' = op /\ raised' = FALSE
    /\ ret' = [op |-> op, name |-> name, clone_from |-> clone_from, value |-> value,
               before |-> disk]

\* what the store functions leave alone
StoreFrame ==
    UNCHANGED << smart_enabled, hoverVars, sectionVars, stickyVars, dragVars, previewVars,
                 hiddenVars, editorVars, popupVars, auxVars, detVars, loadVars, menuVars, cursor >>

\* new_payload of create_preset when clone_from names a preset
ClonePayload(src) == Preset(src.active, src.colour, src.inner_section)

\* new_payload of create_preset otherwise: defaults and a starter section
StarterPayload == Preset(TRUE, DefaultColour, CSections)

\* create_preset that stores the payload under a name already in use
CreatedOver(d, name, payload) ==
    [d EXCEPT !.presets = Append(SelectSeq(@, LAMBDA e : e.k # name),
                                 [k |-> name, v |-> payload])]

\* d["presets"][name] = new_payload
Created(d, name, payload) ==
    IF HasKey(d.presets, name) THEN d
    ELSE [d EXCEPT !.presets = Append(@, [k |-> name, v |-> payload])]

create_preset(name, clone_from) ==
    \E d \in {_load_data(disk)} :
    \E payload \in {IF clone_from # None /\ HasKey(d.presets, clone_from)
                    THEN ClonePayload(PresetOf(d, clone_from))
                    ELSE StarterPayload} :
    /\ Called("create_preset", name, clone_from,
              IF HasKey(d.presets, name) THEN "False" ELSE "True")
    /\ disk' = Created(d, name, payload)
    /\ StoreFrame

\* delete_preset that keeps active_preset as it was
DeletedKeepsActive(d, name) ==
    [d EXCEPT !.presets = SelectSeq(@, LAMBDA e : e.k # name)]

\* "Default" if "Default" in d["presets"] else next(iter(d["presets"]), "")
Fallback(left) ==
    IF HasKey(left, "Default") THEN "Default"
    ELSE IF left # <<>> THEN left[1].k ELSE ""

\* the document with presets `left`; active_preset falls back when it was `name`
DeletedTo(d, name, left) ==
    [active_preset |-> IF d.active_preset = name THEN Fallback(left) ELSE d.active_preset,
     presets |-> left]

\* del d["presets"][name], with the fallback of active_preset
Deleted(d, name) == DeletedTo(d, name, SelectSeq(d.presets, LAMBDA e : e.k # name))

\* delete_preset that has no guard for Default
DeleteRefusedNever(name) == FALSE

\* delete_preset refuses the name "Default"
DeleteRefused(name) == name = "Default"

delete_preset(name) ==
    \E d \in {_load_data(disk)} :
    \E ok \in {~ DeleteRefused(name) /\ HasKey(d.presets, name)} :
    /\ Called("delete_preset", name, None, IF ok THEN "True" ELSE "False")
    /\ disk' = IF ok THEN Deleted(d, name) ELSE d
    /\ StoreFrame

set_active_preset(name) ==
    \E d \in {_load_data(disk)} :
    /\ Called("set_active_preset", name, None,
              IF HasKey(d.presets, name) THEN "True" ELSE "False")
    /\ disk' = SetActive(d, name)
    /\ StoreFrame

\* smart_autoswitch_now: the preset the oracle names is committed
smart_autoswitch_now(oracle) ==
    /\ smart_enabled
    /\ oracle # None
    /\ Called("smart_autoswitch_now", oracle, None, oracle)
    /\ disk' = SetActive(_load_data(disk), oracle)
    /\ StoreFrame

\* ------------------------------------- hold-gesture detector and installers

MaxDetectors == 2       \* RightClickHoldDetector objects constructed in one run
MaxMenus == 2           \* popups the detectors construct in one run

Modules == {"main", "widget"}       \* radialMenu_main, radialWidget
Forces == {"None", "True", "False"} \* the force_state argument

\* RightClickHoldDetector.__init__; `dict` is the module whose radial_enabled
\* dict the detector was handed
NewDetector(dict) ==
    [dict |-> dict, _radial |-> NoMenu, _forwarding_release |-> FALSE,
     _shutting_down |-> FALSE]

\* app.removeEventFilter(obj)
RemoveFilter(filters, id) == SelectSeq(filters, LAMBDA x : x # id)

\* the part of the state one event dispatch works on
World ==
    [detectors |-> detectors, menus |-> menus, grabber |-> grabber, disk |-> disk,
     calls |-> <<>>, handled |-> <<>>]

\* QWidget.close() of popup m (WA_DeleteOnClose: the closed popup is deleted
\* when control returns to the event loop, so a closed popup is not valid at
\* the next event)
CloseMenu(W, m) ==
    [W EXCEPT !.menus[m].open = FALSE,
              !.grabber = IF W.grabber = m THEN NoMenu ELSE W.grabber]

\* self._radial.close(); self._radial = None inside try/except: closing a
\* deleted popup raises RuntimeError, which is swallowed before the reset
ClosePrior(W, d) ==
    IF W.detectors[d]._radial # NoMenu /\ W.menus[W.detectors[d]._radial].open
    THEN [CloseMenu(W, W.detectors[d]._radial) EXCEPT !.detectors[d]._radial = NoMenu]
    ELSE W

\* the first two lines of eventFilter let the event through
DetectorOn(det) == ~ det._shutting_down /\ radial_enabled[det.dict]

\* the press is taken by every viewport press
DetectorAcceptsAnywhere(on, modifier, in_viewport) == on /\ ~ modifier

\* the conditions under which eventFilter takes a right-button press
DetectorAccepts(on, modifier, in_viewport) == on /\ ~ modifier /\ in_viewport

\* one call of eventFilter, as logged
Call(W, d, original, result, created) ==
    [det |-> d, original |-> original, on |-> DetectorOn(W.detectors[d]),
     popup |-> W.detectors[d]._radial,
     popup_open |-> (W.detectors[d]._radial # NoMenu
                     /\ W.menus[W.detectors[d]._radial].open),
     result |-> result, created |-> created]

\* the accepting branch of a press: the prior popup is closed, the smart
\* preset committed, a fresh popup built, shown (it grabs the mouse) and tracked
OpenMenu(W, d, oracle) ==
    [ClosePrior(W, d) EXCEPT
        !.disk = IF smart_enabled /\ oracle # None THEN SetActive(@, oracle) ELSE @,
        !.menus = Append(@, [open |-> TRUE]),
        !.grabber = Len(W.menus) + 1,
        !.detectors[d]._radial = Len(W.menus) + 1,
        !.calls = Append(@, Call(W, d, TRUE, TRUE, Len(W.menus) + 1))]

\* eventFilter of detector d on a right-button press
FilterPress(W, d, modifier, in_viewport, oracle) ==
    IF DetectorAccepts(DetectorOn(W.detectors[d]), modifier, in_viewport)
    THEN OpenMenu(W, d, oracle)
    ELSE [W EXCEPT !.calls = Append(@, Call(W, d, TRUE, FALSE, NoMenu))]

\* the application's filters see the press, the last installed first, until
\* one of them returns True
RECURSIVE PressChain(_, _, _, _, _)
PressChain(W, k, modifier, in_viewport, oracle) ==
    IF k = 0 \/ (W.calls # <<>> /\ W.calls[Len(W.calls)].result) THEN W
    ELSE PressChain(FilterPress(W, app_filters[k], modifier, in_viewport, oracle),
                    k - 1, modifier, in_viewport, oracle)

\* RadialMenu.mouseReleaseEvent of popup m for a right-button release: the
\* release script runs, then click state is dropped, the grab released and the
\* popup closed, unless the script raised
MenuRelease(W, m, outcome) ==
    IF m = NoMenu \/ ~ W.menus[m].open THEN W
    ELSE IF outcome = "raise" THEN [W EXCEPT !.handled = Append(@, m)]
    ELSE [CloseMenu(W, m) EXCEPT !.handled = Append(@, m)]

\* a right-button release for `target` goes through the application's filters
\* from filter k down, then to the target; FilterRelease is eventFilter of
\* detector d on that release, which forwards a synthesized release
RECURSIVE ReleaseChain(_, _, _, _, _)
RECURSIVE FilterRelease(_, _, _, _, _)
RECURSIVE ReleaseNext(_, _, _, _, _, _)
ReleaseChain(W, k, target, outcome, original) ==
    IF k = 0 THEN MenuRelease(W, target, outcome)
    ELSE ReleaseNext(FilterRelease(W, app_filters[k], target, outcome, original),
                     Len(W.calls), k, target, outcome, original)

\* the chain goes on to the next filter when filter k returned False
ReleaseNext(W, logged, k, target, outcome, original) ==
    IF W.calls[logged + 1].result THEN W
    ELSE ReleaseChain(W, k - 1, target, outcome, original)

FilterRelease(W, d, target, outcome, original) ==
    IF /\ DetectorOn(W.detectors[d])
       /\ ~ W.detectors[d]._forwarding_release
       /\ W.detectors[d]._radial # NoMenu
       /\ W.menus[W.detectors[d]._radial].open
    THEN [ReleaseChain([W EXCEPT !.detectors[d]._forwarding_release = TRUE,
                                 !.calls = Append(@, Call(W, d, original, TRUE, NoMenu))],
                       Len(app_filters), W.detectors[d]._radial, outcome, FALSE)
            EXCEPT !.detectors[d]._forwarding_release = FALSE,
                   !.detectors[d]._radial = NoMenu]
    ELSE [W EXCEPT !.calls = Append(@, Call(W, d, original, FALSE, NoMenu))]

\* the state after a dispatch
Dispatched(W, kind, modifier, in_viewport) ==
    /\ detectors' = W.detectors
    /\ menus' = W.menus
    /\ grabber' = W.grabber
    /\ disk' = W.disk
    /\ det_log' = [kind |-> kind, modifier |-> modifier, in_viewport |-> in_viewport,
                   calls |-> W.calls, handled |-> W.handled]

\* a right-button press reaches the application
RightClickHoldDetector_eventFilter_Press(modifier, in_viewport, oracle) ==
    /\ Len(menus) < MaxMenus
    /\ app_filters # <<>>
    /\ lastOp' = "rmb_press" /\ raised' = FALSE
    /\ Dispatched(PressChain(World, Len(app_filters), modifier, in_viewport, oracle),
                  "press", modifier, in_viewport)
    /\ UNCHANGED << smart_enabled, hoverVars, sectionVars, stickyVars, dragVars,
                    previewVars, hiddenVars, editorVars, popupVars, auxVars, ret, loadVars, menuVars,
                    radial_enabled, _rmb_detector_ref, app_filters, cursor >>

\* a right-button release reaches the application; it is addressed to the
\* popup that holds the mouse grab, if there is one
RightClickHoldDetector_eventFilter_Release(outcome) ==
    /\ app_filters # <<>>
    /\ lastOp' = "rmb_release" /\ raised' = FALSE
    /\ Dispatched(ReleaseChain(World, Len(app_filters), grabber, outcome, TRUE),
                  "release", FALSE, FALSE)
    /\ UNCHANGED << smart_enabled, hoverVars, sectionVars, stickyVars, dragVars,
                    previewVars, hiddenVars, editorVars, popupVars, auxVars, ret, loadVars, menuVars,
                    radial_enabled, _rmb_detector_ref, app_filters, cursor >>

\* a popup closes by itself (Escape, focus lost, a left-button trigger)
RadialMenu_close(m) ==
    /\ m \in 1..Len(menus) /\ menus[m].open
    /\ lastOp' = "menu_close" /\ raised' = FALSE
    /\ menus' = [menus EXCEPT ![m].open = FALSE]
    /\ grabber' = IF grabber = m THEN NoMenu ELSE grabber
    /\ UNCHANGED << storeVars, hoverVars, sectionVars, stickyVars, dragVars, previewVars,
                    hiddenVars, editorVars, popupVars, auxVars, ret, loadVars, menuVars, radial_enabled,
                    _rmb_detector_ref, detectors, app_filters, det_log, cursor >>

\* what the installers leave alone
InstallerFrame ==
    UNCHANGED << storeVars, hoverVars, sectionVars, stickyVars, dragVars, previewVars,
                 hiddenVars, editorVars, popupVars, auxVars, ret, loadVars, menuVars, det_log, cursor >>

\* install_rmb_hold_detector() of module mod: the module's previous detector
\* is removed, a new one created, installed and stored (radialMenu_main also
\* registers its quit job)
install_rmb_hold_detector(mod) ==
    /\ Len(detectors) < MaxDetectors
    /\ lastOp' = "install" /\ raised' = FALSE
    /\ detectors' = Append(detectors, NewDetector(mod))
    /\ app_filters' = Append(IF _rmb_detector_ref[mod].instance # NoDetector
                             THEN RemoveFilter(app_filters, _rmb_detector_ref[mod].instance)
                             ELSE app_filters,
                             Len(detectors) + 1)
    /\ _rmb_detector_ref' = [_rmb_detector_ref EXCEPT
                                ![mod] = [instance |-> Len(detectors) + 1,
                                          scriptJob |-> (mod = "main")]]
    /\ UNCHANGED << radial_enabled, menus, grabber >>
    /\ InstallerFrame

\* radialWidget.refresh_radial_menu()
refresh_radial_menu ==
    /\ Len(detectors) < MaxDetectors
    /\ lastOp' = "refresh" /\ raised' = FALSE
    /\ detectors' = Append(detectors, NewDetector("widget"))
    /\ app_filters' = Append(IF _rmb_detector_ref.widget.instance # NoDetector
                             THEN RemoveFilter(app_filters, _rmb_detector_ref.widget.instance)
                             ELSE app_filters,
                             Len(detectors) + 1)
    /\ _rmb_detector_ref' = [_rmb_detector_ref EXCEPT
                                !.widget.instance = Len(detectors) + 1]
    /\ radial_enabled' = [radial_enabled EXCEPT !.widget = TRUE]
    /\ UNCHANGED << menus, grabber >>
    /\ InstallerFrame

\* toggle_radial_menu(force_state) of module mod
toggle_radial_menu(mod, force) ==
    /\ lastOp' = "toggle" /\ raised' = FALSE
    /\ radial_enabled' = [radial_enabled EXCEPT
                             ![mod] = IF force = "None" THEN ~ @ ELSE force = "True"]
    /\ UNCHANGED << _rmb_detector_ref, detectors, app_filters, menus, grabber >>
    /\ InstallerFrame

\* radialMenu_main.launch_or_toggle_radial(force_state)
launch_or_toggle_radial(force) ==
    /\ lastOp' = "launch" /\ raised' = FALSE
    /\ IF _rmb_detector_ref.main.instance = NoDetector THEN
          /\ Len(detectors) < MaxDetectors
          /\ detectors' = Append(detectors, NewDetector("main"))
          /\ app_filters' = Append(app_filters, Len(detectors) + 1)
          /\ _rmb_detector_ref' = [_rmb_detector_ref EXCEPT
                                      !.main = [instance |-> Len(detectors) + 1,
                                                scriptJob |-> TRUE]]
          /\ radial_enabled' = [radial_enabled EXCEPT !.main = (force # "False")]
       ELSE
          /\ radial_enabled' = [radial_enabled EXCEPT
                                   !.main = IF force = "None" THEN ~ @ ELSE force = "True"]
          /\ UNCHANGED << detectors, app_filters, _rmb_detector_ref >>
    /\ UNCHANGED << menus, grabber >>
    /\ InstallerFrame

\* RightClickHoldDetector.cleanup() of detector d
Cleanup(W, d) ==
    [ClosePrior(W, d) EXCEPT !.detectors[d]._shutting_down = TRUE]

\* radialMenu_main.uninstall_radial_menu()
uninstall_radial_menu ==
    /\ lastOp' = "uninstall" /\ raised' = FALSE
    /\ IF _rmb_detector_ref.main.instance # NoDetector THEN
          \E W \in {Cleanup(World, _rmb_detector_ref.main.instance)} :
             /\ detectors' = W.detectors
             /\ menus' = W.menus
             /\ grabber' = W.grabber
             /\ app_filters' = RemoveFilter(app_filters, _rmb_detector_ref.main.instance)
       ELSE UNCHANGED << detectors, menus, grabber, app_filters >>
    /\ _rmb_detector_ref' = [_rmb_detector_ref EXCEPT
                                !.main = [instance |-> NoDetector, scriptJob |-> FALSE]]
    /\ radial_enabled' = [radial_enabled EXCEPT !.main = FALSE]
    /\ InstallerFrame

\* the smart-preset oracle's answers: no preset, or the name of one
Oracle == {None, "B"}

\* The hold gesture: the installers of both modules, the toggles, right-button
\* presses and releases through the application's filters, popups closing.
NextDetector ==
    \/ \E mod \in Modules : install_rmb_hold_detector(mod)
    \/ refresh_radial_menu
    \/ \E mod \in Modules, force \in Forces : toggle_radial_menu(mod, force)
    \/ \E force \in Forces : launch_or_toggle_radial(force)
    \/ uninstall_radial_menu
    \/ \E modifier \in BOOLEAN, in_viewport \in BOOLEAN, oracle \in Oracle :
          RightClickHoldDetector_eventFilter_Press(modifier, in_viewport, oracle)
    \/ \E outcome \in Outcomes : RightClickHoldDetector_eventFilter_Release(outcome)
    \/ \E m \in 1..MaxMenus : RadialMenu_close(m)
    \/ \E st \in BOOLEAN : set_smart_preset_enabled(st)

SpecDetector == InitClick /\ [][NextDetector]_vars

\* The preset store: the module's store functions called in any order on the
\* document, with the popup's wheel committing presets.
StoreNames == {"B", "D"}
CloneSources == {None, "B", "C"}

NextStore ==
    \/ \E name \in StoreNames, clone_from \in CloneSources : create_preset(name, clone_from)
    \/ \E name \in {"Default", "B"} : delete_preset(name)
    \/ \E name \in StoreNames \cup {"Zed"} : set_active_preset(name)
    \/ \E name \in {"Default", "B"}, st \in BOOLEAN : set_preset_active(name, st)
    \/ \E st \in BOOLEAN : set_smart_preset_enabled(st)
    \/ \E oracle \in {"B", "Zed"} : smart_autoswitch_now(oracle)
    \/ \E step \in Steps : RadialMenu_wheelEvent(At(260, 100), step)

SpecStore == InitClick /\ [][NextStore]_vars

\* ------------------------------- editor commands: context menu, paste, save

\* the first of base_1, base_2, ... that is free
RECURSIVE Suffixed(_, _, _)
Suffixed(base, existing_keys, i) ==
    IF ~ InSeq(existing_keys, base \o "_" \o ToString(i))
    THEN base \o "_" \o ToString(i)
    ELSE Suffixed(base, existing_keys, i + 1)

\* a _unique_label that does not look at the existing keys
_unique_label_base(base, existing_keys) == base

\* _unique_label: base, or the first of base_1, base_2, ... that is free
_unique_label(base, existing_keys) ==
    IF ~ InSeq(existing_keys, base) THEN base ELSE Suffixed(base, existing_keys, 1)

\* d[key] = value: a key already there keeps its place
SetItem(d, key, value) ==
    IF HasKey(d, key)
    THEN [i \in 1..Len(d) |-> IF d[i].k = key THEN [k |-> key, v |-> value] ELSE d[i]]
    ELSE Append(d, [k |-> key, v |-> value])

\* del d[key]
Without(d, key) == SelectSeq(d, LAMBDA e : e.k # key)

\* a child's dict held as a clipboard payload, and back
AsNode(leaf) ==
    Node(leaf.description, leaf.command, leaf.on_release, leaf.on_double, <<>>, FALSE)
AsLeaf(nd) == Leaf(nd.description, nd.command, nd.on_release, nd.on_double)

\* What a command leaves in the widget, the editor fields, the file and the
\* clipboard.  Keep is a command that changed nothing; wrote tells that the
\* file was saved, raised that the command was left by an exception.
Keep ==
    [disk |-> disk, sections |-> inner_sections, order |-> inner_order,
     angles |-> inner_angles, active |-> active_sector, outer |-> outer_active_sector,
     kids |-> hovered_children, sticky_parent |-> _sticky_parent,
     sticky_child |-> _sticky_child, picked |-> picked_parent,
     hLabel |-> hiddenLabel, hType |-> hiddenType, hParent |-> hiddenParent,
     label |-> label_lineEdit, script |-> scriptEditor, release |-> releaseEditor,
     double |-> doubleEditor, desc |-> descEditor, clip |-> _CLIPBOARD,
     wrote |-> FALSE, raised |-> FALSE]

Apply(e) ==
    /\ disk' = e.disk
    /\ inner_sections' = e.sections /\ inner_order' = e.order /\ inner_angles' = e.angles
    /\ active_sector' = e.active /\ outer_active_sector' = e.outer
    /\ hovered_children' = e.kids
    /\ _sticky_parent' = e.sticky_parent /\ _sticky_child' = e.sticky_child
    /\ picked_parent' = e.picked
    /\ hiddenLabel' = e.hLabel /\ hiddenType' = e.hType /\ hiddenParent' = e.hParent
    /\ label_lineEdit' = e.label /\ scriptEditor' = e.script
    /\ releaseEditor' = e.release /\ doubleEditor' = e.double /\ descEditor' = e.desc
    /\ _CLIPBOARD' = e.clip
    /\ raised' = e.raised
    /\ writes' = IF e.wrote THEN writes + 1 ELSE writes

EditFrame ==
    UNCHANGED << smart_enabled, dragVars, previewVars, popupVars, session, mmb_down,
                 toggles, ret, detVars, loadVars >>

\* the new child's dict in _add_child_to_active_inner
NewChild(label) == Leaf(label, "print_" \o label, "", "")

\* _add_child_to_active_inner after the save (lines 1010-1038): the reload
\* indexes the presets with self._preview_name
AddChildShown(e, doc1, parent_label, new_label) ==
    IF _preview_name = None \/ ~ HasKey(doc1.presets, _preview_name)
    THEN [e EXCEPT !.disk = doc1, !.wrote = TRUE, !.raised = TRUE]
    ELSE [e EXCEPT
            !.disk = doc1, !.wrote = TRUE,
            !.sections = PresetOf(doc1, _preview_name).inner_section,
            !.order = Keys(PresetOf(doc1, _preview_name).inner_section),
            !.angles = calculate_angles(Keys(PresetOf(doc1, _preview_name).inner_section)),
            !.kids = Kids(ChildrenOf(PresetOf(doc1, _preview_name).inner_section,
                                     parent_label)),
            !.outer = new_label,
            !.label = new_label, !.hLabel = new_label,
            !.script = NewChild(new_label).command,
            !.hType = "child", !.hParent = parent_label,
            !.desc = NewChild(new_label).description,
            !.sticky_child = new_label, !.picked = parent_label]

AddChildTo(e, pname, inner, parent_label, new_label) ==
    AddChildShown(e,
        WithSections(disk, pname,
            WithChildren(inner, parent_label,
                SetItem(ChildrenOf(inner, parent_label), new_label, NewChild(new_label)))),
        parent_label, new_label)

_add_child_to_active_inner(e) ==
    IF e.active = None THEN e
    ELSE IF ~ HasKey(PresetOf(disk, _get_preset_for_write(disk)).inner_section, e.active)
    THEN e
    ELSE AddChildTo(e, _get_preset_for_write(disk),
                    PresetOf(disk, _get_preset_for_write(disk)).inner_section, e.active,
                    _unique_label("new_child",
                        Keys(ChildrenOf(PresetOf(disk, _get_preset_for_write(disk)).inner_section,
                                        e.active))))

RemovedInner(e, doc1, sections1, label) ==
    LET e1 == [e EXCEPT !.disk = doc1, !.wrote = TRUE,
                        !.sections = sections1, !.order = Keys(sections1),
                        !.angles = calculate_angles(Keys(sections1)),
                        !.active = None, !.kids = NoKids, !.outer = None]
        e2 == IF hiddenLabel = label
              THEN [e1 EXCEPT !.label = "", !.hLabel = "", !.hType = "", !.hParent = "",
                              !.script = "", !.desc = ""]
              ELSE e1
    IN  IF _sticky_parent = label
        THEN [e2 EXCEPT !.sticky_parent = None, !.sticky_child = None]
        ELSE e2

_remove_inner(e, label) ==
    LET pname == _get_preset_for_write(disk)
        inner == PresetOf(disk, pname).inner_section
    IN  IF ~ HasKey(inner, label) THEN e
        ELSE RemovedInner(e, WithSections(disk, pname, Without(inner, label)),
                          Without(inner, label), label)

\* parent["children"] after del children[child_label]: the key is dropped
\* with the last child
WithoutChild(sections, parent_label, child_label) ==
    [i \in 1..Len(sections) |->
        IF sections[i].k = parent_label
        THEN [k |-> parent_label,
              v |-> [sections[i].v EXCEPT
                        !.children = Without(@, child_label),
                        !.ckey = Without(sections[i].v.children, child_label) # <<>>]]
        ELSE sections[i]]

RemovedChild(e, doc1, sections1, parent_label, child_label) ==
    LET e1 == [e EXCEPT !.disk = doc1, !.wrote = TRUE, !.sections = sections1,
                        !.active = parent_label,
                        !.kids = Kids(ChildrenOf(sections1, parent_label)),
                        !.outer = None]
        e2 == IF hiddenLabel = child_label
              THEN [e1 EXCEPT !.hType = "inner", !.hParent = "", !.hLabel = parent_label,
                              !.label = parent_label,
                              !.script = NodeOf(sections1, parent_label).command,
                              !.desc = NodeOf(sections1, parent_label).description]
              ELSE e1
    IN  IF _sticky_child = child_label THEN [e2 EXCEPT !.sticky_child = None] ELSE e2

_remove_child(e, parent_label, child_label) ==
    LET pname == _get_preset_for_write(disk)
        inner == PresetOf(disk, pname).inner_section
    IN  IF ~ HasKey(inner, parent_label) THEN e
        ELSE IF ~ HasKey(ChildrenOf(inner, parent_label), child_label) THEN e
        ELSE RemovedChild(e,
                 WithSections(disk, pname, WithoutChild(inner, parent_label, child_label)),
                 WithoutChild(inner, parent_label, child_label), parent_label, child_label)

\* _CLIPBOARD.update(...) with a deep copy of the node
Copied(e, type, label, payload) ==
    [e EXCEPT !.clip = [type |-> type, label |-> label, payload |-> payload]]

PastedInner(e, doc1, sections1, new_label) ==
    [e EXCEPT
        !.disk = doc1, !.wrote = TRUE,
        !.sections = sections1, !.order = Keys(sections1),
        !.angles = calculate_angles(Keys(sections1)),
        !.active = new_label,
        !.kids = Kids(ChildrenOf(sections1, new_label)),
        !.outer = None,
        !.hType = "inner", !.hParent = "", !.hLabel = new_label, !.label = new_label,
        !.script = NodeOf(sections1, new_label).command,
        !.release = NodeOf(sections1, new_label).on_release,
        !.double = NodeOf(sections1, new_label).on_double,
        !.desc = NodeOf(sections1, new_label).description]

PasteInnerAs(e, pname, inner, new_label) ==
    PastedInner(e,
        WithSections(disk, pname,
            SetItem(inner, new_label, [_CLIPBOARD.payload EXCEPT !.ckey = TRUE])),
        SetItem(inner, new_label, [_CLIPBOARD.payload EXCEPT !.ckey = TRUE]),
        new_label)

_paste_inner_as_new(e, anchor_inner_label) ==
    IF _CLIPBOARD.type # "inner" THEN e
    ELSE PasteInnerAs(e, _get_preset_for_write(disk),
                      PresetOf(disk, _get_preset_for_write(disk)).inner_section,
                      _unique_label((IF _CLIPBOARD.label # "" THEN _CLIPBOARD.label
                                     ELSE "pasted") \o "_copy",
                                    Keys(PresetOf(disk, _get_preset_for_write(disk)).inner_section)))

PastedChild(e, doc1, sections1, parent_label, new_label) ==
    [e EXCEPT
        !.disk = doc1, !.wrote = TRUE, !.sections = sections1,
        !.active = parent_label,
        !.kids = Kids(ChildrenOf(sections1, parent_label)),
        !.outer = new_label,
        !.hType = "child", !.hParent = parent_label, !.hLabel = new_label,
        !.label = new_label,
        !.script = LeafOf(ChildrenOf(sections1, parent_label), new_label).command,
        !.desc = LeafOf(ChildrenOf(sections1, parent_label), new_label).description,
        !.sticky_child = new_label, !.picked = parent_label]

PasteChildAs(e, pname, inner, parent_label, new_label) ==
    PastedChild(e,
        WithSections(disk, pname,
            WithChildren(inner, parent_label,
                SetItem(ChildrenOf(inner, parent_label), new_label,
                        AsLeaf(_CLIPBOARD.payload)))),
        WithChildren(inner, parent_label,
            SetItem(ChildrenOf(inner, parent_label), new_label,
                    AsLeaf(_CLIPBOARD.payload))),
        parent_label, new_label)

_paste_child_as_new(e, parent_label) ==
    IF _CLIPBOARD.type # "child" THEN e
    ELSE IF ~ HasKey(PresetOf(disk, _get_preset_for_write(disk)).inner_section, parent_label)
    THEN e
    ELSE PasteChildAs(e, _get_preset_for_write(disk),
                      PresetOf(disk, _get_preset_for_write(disk)).inner_section,
                      parent_label,
                      _unique_label((IF _CLIPBOARD.label # "" THEN _CLIPBOARD.label
                                     ELSE "pasted_child") \o "_copy",
                                    Keys(ChildrenOf(
                                        PresetOf(disk, _get_preset_for_write(disk)).inner_section,
                                        parent_label))))

\* the entries of the context menu
Choices == {"none", "add_child", "remove", "copy", "paste"}

\* the menu over an inner sector, after self.active_sector = parent_at_click
InnerMenu(e, parent, chosen) ==
    IF chosen = "add_child" THEN _add_child_to_active_inner(e)
    ELSE IF chosen = "remove" THEN _remove_inner(e, parent)
    ELSE IF chosen = "copy" THEN Copied(e, "inner", parent, NodeOf(inner_sections, parent))
    ELSE IF chosen = "paste" THEN _paste_inner_as_new(e, parent)
    ELSE e

\* the menu over a child of parent_at_click
ChildMenu(e, parent, child_label, chosen) ==
    IF chosen = "remove" THEN _remove_child(e, parent, child_label)
    ELSE IF chosen = "copy"
    THEN Copied(e, "child", child_label, AsNode(LeafOf(e.kids.kids, child_label)))
    ELSE IF chosen = "paste" THEN _paste_child_as_new(e, parent)
    ELSE e

\* the command chosen and what it was given
CtxLog(op, zone, parent, child, label) ==
    [op |-> op, zone |-> zone, parent |-> parent, child |-> child, label |-> label]

\* contextMenuEvent at p, the user picking `chosen` (or dismissing the menu)
RadialMenuWidget_contextMenuEvent(p, chosen) ==
    \E parent \in {IF p.d <= outer_radius
                   THEN get_sector_from_angle(FInt(p.a), inner_order, inner_angles)
                   ELSE None} :
    \E kids \in {Kids(ChildrenOf(inner_sections, parent))} :
    \E child_label \in {IF InBandX(p.d) /\ parent # None
                        THEN get_outer_sector_from_angle(FInt(p.a), parent, kids,
                                                         inner_order, inner_angles)
                        ELSE None} :
    /\ session = "editor"
    /\ chosen \in {"add_child", "remove", "paste"} => writes < MaxEdits
    /\ Event(p, "context")
    /\ IF p.d <= radius /\ parent # None THEN
          /\ chosen = "paste" => _CLIPBOARD.type = "inner"
          /\ Apply(InnerMenu([Keep EXCEPT !.active = parent], parent, chosen))
          /\ ctx' = CtxLog(chosen, "inner", parent, None, "")
       ELSE IF InBandX(p.d) /\ parent # None THEN
          IF child_label # None THEN
             /\ chosen # "add_child"
             /\ chosen = "paste" => _CLIPBOARD.type = "child"
             /\ Apply(ChildMenu([Keep EXCEPT !.active = parent, !.kids = kids],
                                parent, child_label, chosen))
             /\ ctx' = CtxLog(chosen, "child", parent, child_label, "")
          ELSE
             /\ chosen = "none"
             /\ Apply([Keep EXCEPT !.active = parent, !.kids = kids])
             /\ ctx' = CtxLog(chosen, "none", parent, None, "")
       ELSE
          /\ chosen = "none"
          /\ Apply(Keep)
          /\ ctx' = CtxLog(chosen, "none", None, None, "")
    /\ EditFrame

\* the editor texts written into a node by save_sectorInfo
Edited(nd) ==
    [nd EXCEPT !.command = scriptEditor, !.on_release = releaseEditor,
               !.on_double = doubleEditor, !.description = descEditor]

\* renamed = OrderedDict(); for k, v in d.items(): renamed[new if k == cur else k] = v
\* (a key met twice keeps its first place and takes the later value)
Renamed(d, curLabel, newLabel) ==
    OrderedDictOf([i \in 1..Len(d) |->
        [k |-> IF d[i].k = curLabel THEN newLabel ELSE d[i].k,
         v |-> IF d[i].k = curLabel THEN Edited(d[i].v) ELSE d[i].v]])

\* _save_all, _refresh_preview and the widget's highlight after a save
SavedInner(e, sections1, newLabel) ==
    [e EXCEPT
        !.disk = WithSections(disk, preset_combo, sections1), !.wrote = TRUE,
        !.sections = sections1, !.order = Keys(sections1),
        !.angles = calculate_angles(Keys(sections1)),
        !.hLabel = newLabel,
        !.active = newLabel,
        !.kids = Kids(ChildrenOf(sections1, newLabel)),
        !.outer = None]

SavedChild(e, sections1, parent_label, newLabel) ==
    [e EXCEPT
        !.disk = WithSections(disk, preset_combo, sections1), !.wrote = TRUE,
        !.sections = sections1, !.order = Keys(sections1),
        !.angles = calculate_angles(Keys(sections1)),
        !.hLabel = newLabel,
        !.active = parent_label,
        !.kids = Kids(ChildrenOf(sections1, parent_label)),
        !.outer = newLabel]

\* save_sectorInfo with newLabel in the label box
SaveSector(e, inner, curLabel, newLabel) ==
    IF curLabel = "" \/ newLabel = "" THEN e
    ELSE IF hiddenType = "inner" THEN
        IF ~ HasKey(inner, curLabel) THEN e
        ELSE SavedInner(e, Renamed(inner, curLabel, newLabel), newLabel)
    ELSE IF hiddenType = "child" THEN
        IF hiddenParent = "" \/ ~ HasKey(inner, hiddenParent) THEN e
        ELSE IF ~ HasKey(ChildrenOf(inner, hiddenParent), curLabel) THEN e
        ELSE SavedChild(e,
                 WithChildren(inner, hiddenParent,
                     Renamed(ChildrenOf(inner, hiddenParent), curLabel, newLabel)),
                 hiddenParent, newLabel)
    ELSE e

\* the labels typed into the label box
TypedLabels == {"", "E", "k2", "renamed"}

\* the user types a label and presses the editor's Save button
save_sectorInfo(typed) ==
    /\ session = "editor"
    /\ writes < MaxEdits
    /\ lastOp' = "save_sectorInfo" /\ cursor' = cursor
    /\ Apply(SaveSector([Keep EXCEPT !.label = typed],
                        PresetOf(disk, preset_combo).inner_section, hiddenLabel, typed))
    /\ ctx' = CtxLog("save", hiddenType, hiddenParent, None, typed)
    /\ EditFrame

\* the new child's dict in add_child_to_active: all four keys
AddedChild(e, sections1, parent_label, child_label) ==
    [e EXCEPT
        !.disk = WithSections(disk, preset_combo, sections1), !.wrote = TRUE,
        !.sections = sections1, !.order = Keys(sections1),
        !.angles = calculate_angles(Keys(sections1)),
        !.hType = "child", !.hParent = parent_label, !.hLabel = child_label,
        !.label = child_label,
        !.script = NewChild(child_label).command, !.release = "", !.double = "",
        !.desc = NewChild(child_label).description]

AddChildUnder(e, inner, parent_label) ==
    IF parent_label = "" \/ ~ HasKey(inner, parent_label) THEN e
    ELSE AddedChild(e,
             WithChildren(inner, parent_label,
                 SetItem(ChildrenOf(inner, parent_label),
                         _unique_label("new_child", Keys(ChildrenOf(inner, parent_label))),
                         NewChild(_unique_label("new_child",
                                                Keys(ChildrenOf(inner, parent_label)))))),
             parent_label,
             _unique_label("new_child", Keys(ChildrenOf(inner, parent_label))))

\* the editor's "add child" button
add_child_to_active ==
    /\ session = "editor"
    /\ writes < MaxEdits
    /\ lastOp' = "add_child_to_active" /\ cursor' = cursor
    /\ Apply(IF hiddenType \notin {"inner", "child"} THEN Keep
             ELSE AddChildUnder(Keep, PresetOf(disk, preset_combo).inner_section,
                                IF hiddenType = "inner" THEN hiddenLabel ELSE hiddenParent))
    /\ ctx' = CtxLog("add_child_to_active", hiddenType, hiddenParent, None, "")
    /\ EditFrame

\* Child ring geometry: the editor preview over a preset of n sectors
\* (n up to GeomMaxN) that have m children each (m up to MaxKids), the pointer
\* stepped round the inner ring and round the child ring.

GeomKids(m) ==
    [j \in 1..m |-> [k |-> "c" \o ToString(j),
                     v |-> Leaf("", "run" \o ToString(j), "", "")]]

ChildSections(n, m) ==
    [i \in 1..n |-> [k |-> "s" \o ToString(i),
                     v |-> Node("", "c" \o ToString(i), "", "", GeomKids(m), TRUE)]]

ChildDoc(n, m) ==
    [active_preset |-> "Default",
     presets |-> << [k |-> "Default",
                     v |-> Preset(TRUE, DefaultColour, ChildSections(n, m))] >>]

ChildInit ==
    \E n \in 1..GeomMaxN, m \in 1..MaxKids :
        /\ disk = ChildDoc(n, m)
        /\ smart_enabled = FALSE
        /\ session = "editor"
        /\ LoadedFrom(ChildSections(n, m))
        /\ EditorIdle
        /\ PopupIdle
        /\ preset_combo = "Default"
        /\ visible = TRUE
        /\ grabbed = FALSE
        /\ cursor = At(0, 20)
        /\ lastOp = "init"
        /\ raised = FALSE
        /\ mmb_down = FALSE
        /\ writes = 0 /\ toggles = 0
        /\ StoreIdle
        /\ DetectorIdle
        /\ LoadIdle
        /\ MenuIdle

\* pointer steps of 15 degrees, in the inner ring (100) or the child ring (170)
ChildNext ==
    \E d \in {100, 170} : RadialMenuWidget_mouseMoveEvent(At((cursor.a + 15) % 360, d))

SpecChild == ChildInit /\ [][ChildNext]_vars

\* The editor preview with the pointer going round and the context menu
\* opened where the pointer has just moved to; the run ends with the first
\* Copy or Remove.
MenuChoices == {"none", "copy", "remove"}

MenuOpen == _CLIPBOARD = NoClip /\ writes = 0

MenuNext ==
    \/ \E d \in {100, 170} :
          MenuOpen /\ RadialMenuWidget_mouseMoveEvent(At((cursor.a + 15) % 360, d))
    \/ \E chosen \in MenuChoices :
          MenuOpen /\ lastOp = "move" /\ RadialMenuWidget_contextMenuEvent(cursor, chosen)

\* the fullest ring: GeomMaxN sectors of MaxKids children each
MenuInit == ChildInit /\ Len(inner_order) = GeomMaxN /\ Len(inner_sections[1].v.children) = MaxKids

SpecMenu == MenuInit /\ [][MenuNext]_vars

\* the places of the preview the editor's pointer is put at
EditPos == {At(260, 100), At(30, 100), At(260, 170), At(30, 170)}

\* Copy and paste: the context menu opened over the sectors and the children,
\* with up to MaxEdits pastes.
PasteNext ==
    \E p \in EditPos, chosen \in {"none", "copy", "paste"} :
        RadialMenuWidget_contextMenuEvent(p, chosen)

SpecPaste == InitDrag /\ [][PasteNext]_vars

\* Renaming: a sector or a child is selected by a click, a label is typed and
\* Save is pressed, up to MaxEdits times.
SaveNext ==
    \/ \E p \in EditPos : RadialMenuWidget_mousePressEvent_Left(p)
    \/ \E typed \in TypedLabels : save_sectorInfo(typed)

SpecSave == InitDrag /\ [][SaveNext]_vars

\* The editor at work: clicks and drags on the preview, the context menu with
\* its add and remove entries (SpecPaste has copy and paste), and the Save /
\* add buttons of the dialog; the run ends with the first edit of the document.
EditOpen == writes = 0

EditNext ==
    \/ \E p \in EditPos : EditOpen /\ RadialMenuWidget_mousePressEvent_Left(p)
    \/ \E p \in EditPos : EditOpen /\ RadialMenuWidget_mousePressEvent_Middle(p)
    \/ \E p \in EditPos : EditOpen /\ RadialMenuWidget_mouseReleaseEvent_Middle(p)
    \/ \E p \in EditPos, chosen \in Choices \ {"copy", "paste"} :
          EditOpen /\ RadialMenuWidget_contextMenuEvent(p, chosen)
    \/ \E typed \in TypedLabels : EditOpen /\ save_sectorInfo(typed)
    \/ EditOpen /\ add_child_to_active
    \/ EditOpen /\ add_inner

SpecEdit == InitDrag /\ [][EditNext]_vars

\* ------------------------------------ child arcs under a child angle multiplier

\* the child_angle_multiplier values (in hundredths) whose step 25 * mult is a
\* float the limbs hold exactly: 0.5, 1.0, 2.0, 4.0, 8.0 (the spin box allows
\* 0.1 to 8.0)
Mults == {50, 100, 200, 400, 800}

\* step = base_step * child_angle_mult
StepOf(mult) == IF mult = 50 THEN FHalf(FInt(25)) ELSE FInt(25 * (mult \div 100))

\* get_child_angles with the multiplier: child i starts at
\* (start_angle + i * step) % 360, and get_outer_sector_from_angle takes
\* (start + step) % 360 as its end
ChildArcsWith(center_angle, num, step) ==
    LET start_angle == FSubMod360(center_angle, FHalf(FMulInt(num, step)))
    IN  [i \in 1..num |->
            LET min_a == FAddMod360(start_angle, FMulInt(i - 1, step))
            IN  << min_a, FAddMod360(min_a, step) >>]

\* the children whose arc has the angle, in the order of the dict
ChildHits(angle, arcs) == {i \in 1..Len(arcs) : SectorBandHas(angle, arcs[i])}

\* get_outer_sector_from_angle with the multiplier: first match wins
OuterSectorWith(angle, active, hovered, order, angles, mult) ==
    IF active = None \/ ~ Truthy(hovered) THEN None
    ELSE LET arcs == ChildArcsWith(angles[IndexOf(order, active)], Len(hovered.kids),
                                   StepOf(mult))
         IN  IF ChildHits(angle, arcs) = {} THEN None
             ELSE hovered.kids[Min(ChildHits(angle, arcs))].k

\* mouseMoveEvent in the child ring while a sector shows its children, the
\* widget's child_angle_mult being the value of the editor's spin box
HoverChildBand(p) ==
    /\ session = "editor"
    /\ spins.open
    /\ _sticky_parent = None
    /\ InBand(p.d) /\ p.d > radius
    /\ Truthy(hovered_children)
    /\ active_sector # None
    /\ Event(p, "move") /\ raised' = FALSE
    /\ outer_active_sector' =
          OuterSectorWith(FInt(p.a), active_sector, hovered_children, inner_order,
                          inner_angles, spins.child_angle_mult)
    /\ UNCHANGED << active_sector, hovered_children, stickyVars >>
    /\ UNCHANGED << storeVars, sectionVars, dragVars, previewVars, hiddenVars,
                    editorVars, popupVars, auxVars, extVars >>

\* the editor showing the children of sector i of n, with a multiplier set
BandInit ==
    \E n \in 1..GeomMaxN, m \in 1..MaxKids, mult \in Mults :
    \E i \in 1..n :
        /\ disk = ChildDoc(n, m)
        /\ smart_enabled = FALSE
        /\ session = "editor"
        /\ inner_sections = ChildSections(n, m)
        /\ inner_order = Keys(ChildSections(n, m))
        /\ inner_angles = calculate_angles(Keys(ChildSections(n, m)))
        /\ active_sector = "s" \o ToString(i)
        /\ outer_active_sector = None
        /\ hovered_children = Kids(GeomKids(m))
        /\ EditorIdle
        /\ PopupIdle
        /\ preset_combo = "Default"
        /\ visible = TRUE
        /\ grabbed = FALSE
        /\ cursor = At(0, 100)
        /\ lastOp = "init"
        /\ raised = FALSE
        /\ mmb_down = FALSE
        /\ writes = 0 /\ toggles = 0
        /\ StoreIdle
        /\ DetectorIdle
        /\ file = InitFile /\ data = NoData /\ ld = NoLoad
        /\ spins = [open |-> TRUE, radius |-> 150, ring_gap |-> 5, outer_w |-> 25,
                    child_angle_mult |-> mult, inner_hole |-> 52, text_scale |-> 100]
        /\ MenuIdle

\* the pointer goes round the child ring in steps of 15 degrees
BandNext == HoverChildBand(At((cursor.a + 15) % 360, 170))

SpecBands == BandInit /\ [][BandNext]_vars

\* Reordering while the stored active preset moves: the editor's drags, and
\* set_active_preset as the popup's wheel and the smart switch call it on the
\* same file while the editor is open.
ReorderNext ==
    \/ \E p \in InAnnulus \cup InChildBand : RadialMenuWidget_mouseMoveEvent(p)
    \/ \E p \in InAnnulus \cup InChildBand : RadialMenuWidget_mousePressEvent_Middle(p)
    \/ \E p \in InAnnulus \cup InChildBand : RadialMenuWidget_mouseReleaseEvent_Middle(p)
    \/ \E name \in {"Default", "B"} : set_active_preset(name)

SpecReorder == InitDrag /\ [][ReorderNext]_vars

\* The popup over a preset of n sectors with m children each, every child
\* with a script of its own; the pointer is stepped round the inner ring and
\* the child ring and the left button is clicked where the pointer has just
\* moved to; the run ends with the first click.
WedgeKids(i, m) ==
    [j \in 1..m |-> [k |-> "c" \o ToString(j),
                     v |-> Leaf("", "run" \o ToString(i) \o "_" \o ToString(j), "", "")]]

WedgeSections(n, m) ==
    [i \in 1..n |-> [k |-> "s" \o ToString(i),
                     v |-> Node("", "c" \o ToString(i), "", "", WedgeKids(i, m), TRUE)]]

WedgeDoc(n, m) ==
    [active_preset |-> "Default",
     presets |-> << [k |-> "Default",
                     v |-> Preset(TRUE, DefaultColour, WedgeSections(n, m))] >>]

WedgeInit ==
    \E n \in 1..GeomMaxN, m \in 1..MaxKids :
        /\ disk = WedgeDoc(n, m)
        /\ smart_enabled = FALSE
        /\ session = "popup"
        /\ LoadedFrom(WedgeSections(n, m))
        /\ EditorIdle
        /\ PopupIdle
        /\ preset_combo = "Default"
        /\ visible = TRUE
        /\ grabbed = TRUE
        /\ cursor = At(0, 20)
        /\ lastOp = "init"
        /\ raised = FALSE
        /\ mmb_down = FALSE
        /\ writes = 0 /\ toggles = 0
        /\ StoreIdle
        /\ DetectorIdle
        /\ LoadIdle
        /\ MenuIdle

WedgeAiming == lastOp \in {"init", "move"}

WedgeNext ==
    \/ \E d \in {100, 170} :
          WedgeAiming /\ RadialMenu_mouseMoveEvent(At((cursor.a + 15) % 360, d))
    \/ lastOp = "move" /\ RadialMenu_mousePressEvent_Left(cursor)
    \/ lastOp = "pressL" /\ RadialMenu_mouseReleaseEvent_Left
    \/ _fire_pending_single_click("ok")

SpecWedge == WedgeInit /\ [][WedgeNext]_vars

\* ------------------------------------ loading, saving and the size controls

LoadFrame ==
    UNCHANGED << storeVars, hoverVars, sectionVars, stickyVars, dragVars, previewVars,
                 hiddenVars, editorVars, popupVars, auxVars, ret, detVars, menuVars,
                 cursor >>

\* what a _load_data call leaves in ld: what it did, which handler ran before
\* it, and whether the _load_data before it had anything to repair
LogOf(r) ==
    [before |-> r.before, legacy |-> r.legacy, fixed |-> r.fixed, sized |-> r.sized,
     changed |-> r.changed, loaded |-> TRUE, after |-> lastOp,
     repaired_before |-> ld.loaded /\ (ld.legacy \/ ld.fixed \/ ld.sized \/ ld.changed
                                         \/ ld.repaired_before)]

\* a call of _load_data() (by get_active_preset, list_presets, ...)
LoadCall ==
    \E r \in {Loaded(file)} :
    /\ file' = r.file
    /\ data' = r.data
    /\ ld' = LogOf(r)
    /\ lastOp' = "_load_data" /\ raised' = FALSE
    /\ UNCHANGED spins
    /\ LoadFrame

\* _save_data(data) of the document the last _load_data returned
SaveCall ==
    /\ ld.loaded
    /\ file' = json_dump(data)
    /\ lastOp' = "_save_data" /\ raised' = FALSE
    /\ UNCHANGED << data, ld, spins >>
    /\ LoadFrame

\* QSpinBox.setValue: the value is brought into the box's range
Clamp(v, lo, hi) == IF v < lo THEN lo ELSE IF v > hi THEN hi ELSE v

\* buildRadialMenu_UI.__init__, the size controls (lines 190-240): ranges set,
\* values read from the loaded ui.size, then valueChanged connected
buildRadialMenu_UI_init ==
    /\ ~ spins.open
    /\ \E r \in {Loaded(file)} :
       \E size \in {r.data.ui.size} :
          /\ file' = r.file
          /\ data' = r.data
          /\ ld' = LogOf(r)
          /\ spins' = [open |-> TRUE,
                       radius |-> Clamp(size.radius.val, 50, 2000),
                       ring_gap |-> Clamp(size.ring_gap.val, 0, 400),
                       outer_w |-> Clamp(size.outer_ring_width.val, 0, 800),
                       child_angle_mult |-> Clamp(size.child_angle_multiplier.val, 10, 800),
                       inner_hole |-> Clamp(size.inner_hole_radius.val, 0, 1000),
                       text_scale |-> Clamp(size.text_scale.val, 50, 1000)]
    /\ lastOp' = "buildRadialMenu_UI" /\ raised' = FALSE
    /\ LoadFrame

\* the ui.size that _save_global_size writes from the spin boxes
SizeOfSpins(sp) ==
    Size(Given(sp.radius), Given(sp.ring_gap), Given(sp.outer_w),
         Given(sp.child_angle_mult), Given(sp.inner_hole), Given(sp.text_scale))

\* the user sets one size spin box to v (inside the box's range), and its
\* valueChanged runs _save_global_size
_save_global_size(box, v, lo, hi) ==
    /\ spins.open
    /\ lo <= v /\ v <= hi
    /\ v # spins[box]
    /\ \E sp \in {[spins EXCEPT ![box] = v]} :
       \E r \in {Loaded(file)} :
       \E d \in {[r.data EXCEPT !.ui = Ui(TRUE, TRUE, SizeOfSpins(sp))]} :
          /\ spins' = sp
          /\ data' = d
          /\ ld' = LogOf(r)
          /\ file' = json_dump(d)
    /\ lastOp' = "_save_global_size" /\ raised' = FALSE
    /\ LoadFrame

\* the documents _load_data is given: legacy ones (no "presets") and ones in
\* the current schema with keys missing, a wrong active_preset, repeated labels
DupSections ==
    DefaultSections \o << [k |-> "N", v |-> Node("again", "cN2", "", "", <<>>, FALSE)] >>

LegacySections == {Missing(<<>>), Given(<<>>), Given(DefaultSections), Given(DupSections)}

LegacyDocs ==
    {FileDoc(FALSE, sec, Missing(""), <<>>, ui) :
        sec \in LegacySections, ui \in {NoUi, DefaultUi}}

FilePresetLists ==
    { << [k |-> "Default", v |-> FilePreset(Given(TRUE), Given(CustomColour),
                                             Given(DefaultSections))] >>,
      << [k |-> "Default", v |-> FilePreset(Missing(FALSE), Missing(""),
                                             Given(DefaultSections))],
         [k |-> "B", v |-> FilePreset(Given(FALSE), Given(CustomColour), Given(BSections))] >>,
      << [k |-> "B", v |-> FilePreset(Given(TRUE), Given(CustomColour), Missing(<<>>))],
         [k |-> "Default", v |-> FilePreset(Given(TRUE), Given(DefaultColour),
                                             Given(DefaultSections))] >>,
      << [k |-> "Default", v |-> FilePreset(Given(TRUE), Given(DefaultColour),
                                             Given(DupSections))],
         [k |-> "B", v |-> FilePreset(Missing(FALSE), Missing(""), Missing(<<>>))] >> }

FileUis ==
    { NoUi,
      Ui(TRUE, FALSE, NoSize),
      Ui(TRUE, TRUE, Size(Given(60), Missing(0), Missing(0), Missing(0), Missing(0),
                          Missing(0))),
      Ui(TRUE, TRUE, Size(Given(200), Given(5), Given(25), Given(100), Missing(0),
                          Given(100))),
      DefaultUi }

CurrentDocs ==
    {FileDoc(TRUE, Missing(<<>>), a, ps, ui) :
        a \in {Missing(""), Given("Default"), Given("B"), Given("Zed")},
        ps \in FilePresetLists, ui \in FileUis}

\* the values the user gives the radius, gap, width and hole spin boxes
SpinInputs ==
    { << "radius", 50, 50, 2000 >>, << "radius", 150, 50, 2000 >>,
      << "ring_gap", 0, 0, 400 >>, << "outer_w", 0, 0, 800 >>,
      << "inner_hole", 0, 0, 1000 >>, << "inner_hole", 1000, 0, 1000 >> }

NextLoad ==
    \/ LoadCall
    \/ SaveCall
    \/ buildRadialMenu_UI_init
    \/ \E in \in SpinInputs : _save_global_size(in[1], in[2], in[3], in[4])

\* the editor's process starts on a file some earlier version or a hand edit left
InitLoad ==
    /\ file \in LegacyDocs \cup CurrentDocs
    /\ data = NoData /\ ld = NoLoad /\ spins = NoSpins
    /\ disk = InitDoc
    /\ smart_enabled = FALSE
    /\ session = "editor"
    /\ LoadedFrom(_active_preset(InitDoc).inner_section)
    /\ EditorIdle
    /\ PopupIdle
    /\ preset_combo = InitDoc.active_preset
    /\ visible = TRUE
    /\ grabbed = FALSE
    /\ cursor = At(30, 20)
    /\ lastOp = "init"
    /\ raised = FALSE
    /\ mmb_down = FALSE
    /\ writes = 0 /\ toggles = 0
    /\ StoreIdle
    /\ DetectorIdle
    /\ MenuIdle

SpecLoad == InitLoad /\ [][NextLoad]_vars

\* ------------------------------------------------------------------ claims

\* the bands of get_sector_from_angle that have the pointer's angle
OwnersOf(angle) ==
    LET half == HalfStep(Len(inner_angles))
    IN  {i \in 1..Len(inner_angles) :
            SectorBandHas(angle, BandOf(inner_angles[i], half))}

\* C1: for every n >= 1 labels and every angle in [0, 360), the sector found
\* at the angle is a label and exactly one label's band has the angle (no
\* gap, no angle owned twice).  Here: after the pointer moved into the inner
\* ring of the popup, the active sector is a label and the angle has exactly
\* one owner.
C1_ExactlyOneOwner ==
    (session = "popup" /\ lastOp = "move" /\ inner_hole <= cursor.d /\ cursor.d <= radius)
        => /\ active_sector # None
           /\ Cardinality(OwnersOf(FInt(cursor.a))) = 1

\* the inner sector a pointer position is on: inside the inner ring, at its angle
SectorAt(c) ==
    IF inner_hole <= c.d /\ c.d <= radius
    THEN get_sector_from_angle(FInt(c.a), inner_order, inner_angles)
    ELSE None

\* C2: in the editor preview a left press on an inner sector L toggles the
\* lock in every reachable state: if L is the locked sector (the sticky
\* parent) the press clears the full selection (sticky parent, active sector,
\* shown children and active child become none); otherwise L becomes the lock
\* (sticky parent = active sector = L) and the editor fields show L's scripts
\* and description.
C2_LeftPressToggles ==
    [][ LET L == SectorAt(cursor')
        IN (session = "editor" /\ lastOp' = "pressL" /\ L # None)
           => IF _sticky_parent = L
              THEN /\ _sticky_parent' = None /\ active_sector' = None
                   /\ outer_active_sector' = None /\ ~ Truthy(hovered_children')
              ELSE /\ _sticky_parent' = L /\ active_sector' = L
                   /\ label_lineEdit' = L
                   /\ scriptEditor' = NodeOf(inner_sections, L).command
                   /\ releaseEditor' = NodeOf(inner_sections, L).on_release
                   /\ doubleEditor' = NodeOf(inner_sections, L).on_double
                   /\ descEditor' = NodeOf(inner_sections, L).description ]_vars

NoDrag == _dragging_label = None /\ _dragging_child = None

AllCleared ==
    /\ _sticky_parent = None /\ _sticky_child = None
    /\ active_sector = None /\ outer_active_sector = None
    /\ ~ Truthy(hovered_children)

\* C3 as stated: whenever no drag is active, after a pointer move into the
\* inner hole the sticky parent, sticky child, active sector and active child
\* are none and no children are shown, in the popup and in the editor preview,
\* a locked sector included.
C3_HoleClearsAll ==
    (lastOp = "move" /\ cursor.d < inner_hole /\ NoDrag) => AllCleared

\* C3 amended: whenever no drag is active, a pointer move into the inner hole
\* clears the sticky parent, sticky child, active sector, active child and
\* the shown children when no sector is locked (always so in the popup); while
\* a sector is locked in the editor preview the move keeps the lock, its
\* selected child and its highlight.
C3_HoleClearsUnlessLocked ==
    [][ (lastOp' = "move" /\ cursor'.d < inner_hole /\ NoDrag)
        => IF _sticky_parent = None
           THEN AllCleared'
           ELSE /\ _sticky_parent' = _sticky_parent
                /\ _sticky_child' = _sticky_child
                /\ active_sector' = _sticky_parent ]_vars

\* the pointer has left a hovered sector of the editor preview for the hole
C3_HoleClearedEditor ==
    /\ session = "editor" /\ lastOp = "move" /\ cursor.d < inner_hole
    /\ NoDrag /\ AllCleared

\* C4: while a sector is locked, after every pointer move the active sector is
\* the locked one and the shown children are its children, wherever the
\* pointer is; the active child is the child under the pointer while the
\* pointer is inside the true child band, and outside that band it is the
\* last child explicitly selected under the locked parent, or none.
C4_LockPinsHover ==
    (session = "editor" /\ lastOp = "move" /\ _sticky_parent # None)
        => /\ active_sector = _sticky_parent
           /\ hovered_children = Kids(ChildrenOf(inner_sections, _sticky_parent))
           /\ IF InBand(cursor.d)
              THEN outer_active_sector =
                      get_outer_sector_from_angle(FInt(cursor.a), _sticky_parent,
                                                  hovered_children, inner_order,
                                                  inner_angles)
              ELSE \/ outer_active_sector = None
                   \/ /\ outer_active_sector = _sticky_child
                      /\ picked_parent = _sticky_parent

\* inside the hysteresis extension of the child ring, outside the true band
HystOnly(d) ==
    ring_inner_with_hyst <= d /\ d <= ring_outer_with_hyst /\ ~ InBand(d)

\* C5: a pointer move into the hysteresis extension outside the true child
\* band never selects the child at the pointer's angle (the active child
\* becomes none when no lock is set, and with a lock it is none or the locked
\* child), keeps the shown children and the active sector unchanged when
\* children were already shown, and shows none when none were shown.
C5_HysteresisOnlyRetains ==
    [][ (lastOp' = "move" /\ HystOnly(cursor'.d))
        => /\ _sticky_parent = None => outer_active_sector' = None
           /\ _sticky_parent # None => outer_active_sector' \in {None, _sticky_child}
           /\ Truthy(hovered_children)
                 => /\ hovered_children' = hovered_children
                    /\ active_sector' = active_sector
           /\ ~ Truthy(hovered_children) => ~ Truthy(hovered_children') ]_vars

WheelOps == {"wheel_fwd", "wheel_back"}

\* C6: a wheel scroll in the editor preview changes only the preview: the
\* previewed preset name and the displayed sections change (the editor's
\* preset box mirrors the name), while the persisted active_preset and the
\* rest of the persisted document are unchanged.
C6_WheelPreviewOnly ==
    [][ (session = "editor" /\ lastOp' \in WheelOps)
        => /\ disk' = disk
           /\ _preview_name' # _preview_name
                 => /\ inner_sections' = PresetOf(disk, _preview_name').inner_section
                    /\ preset_combo' = _preview_name' ]_vars

\* the wheel has moved the preview away from the persisted active preset
C6_PreviewAhead ==
    /\ session = "editor" /\ lastOp \in WheelOps
    /\ _preview_name # None /\ _preview_name # disk.active_preset
    /\ inner_sections = PresetOf(disk, _preview_name).inner_section

\* the preset the preview shows
Shown == IF _preview_name # None THEN _preview_name ELSE disk.active_preset

NextPreset(names, cur) ==
    LET i == IndexOf(names, cur) IN IF i = Len(names) THEN names[1] ELSE names[i + 1]

PrevPreset(names, cur) ==
    LET i == IndexOf(names, cur) IN IF i = 1 THEN names[Len(names)] ELSE names[i - 1]

\* k forward ticks of the wheel's index arithmetic
RECURSIVE Ticks(_, _, _)
Ticks(names, cur, k) ==
    IF k = 0 THEN cur ELSE Ticks(names, StepName(names, cur, 1), k - 1)

WheelStepped ==
    LET names == list_presets(disk)
    IN  /\ _preview_name' = IF lastOp' = "wheel_fwd" THEN NextPreset(names, Shown)
                            ELSE PrevPreset(names, Shown)
        /\ Ticks(names, Shown, Len(names)) = Shown

\* C7 as stated: in the editor, with at least two presets and no drag active,
\* one wheel tick forward moves the preview to the next preset in insertion
\* order and one tick backward to the previous one, wrapping at both ends;
\* n forward ticks over n presets return to the starting preview.
C7_WheelStepsPreview ==
    [][ (session = "editor" /\ lastOp' \in WheelOps
             /\ Len(list_presets(disk)) >= 2 /\ NoDrag)
        => WheelStepped ]_vars

\* C7 amended: the same, for a tick with the pointer inside the menu circle
\* (distance from the centre at most the outer radius); a tick with the
\* pointer outside the circle leaves the preview where it is.
C7_WheelStepsPreviewInside ==
    [][ (session = "editor" /\ lastOp' \in WheelOps
             /\ Len(list_presets(disk)) >= 2 /\ NoDrag)
        => IF cursor'.d <= outer_radius
           THEN WheelStepped
           ELSE _preview_name' = _preview_name ]_vars

\* a backward tick inside the circle has wrapped from the first preset to the last
C7_WrappedBackward ==
    /\ session = "editor" /\ lastOp = "wheel_back" /\ cursor.d <= outer_radius
    /\ _preview_name = "C" /\ preset_combo = "C"

Eligible(doc, name) == PresetOf(doc, name).active \/ name = "Default"

\* the k-th preset from the active one in the scroll direction, wrapping
Kth(doc, step, k) ==
    LET names == list_presets(doc)
        n == Len(names)
        i == IndexOf(names, doc.active_preset) - 1
    IN  names[((i + k * step + n * n) % n) + 1]

NearestEligible(doc, step) ==
    LET n == Len(list_presets(doc))
        ks == {k \in 1..n : Eligible(doc, Kth(doc, step, k))}
    IN  IF ks = {} THEN doc.active_preset ELSE Kth(doc, step, Min(ks))

\* C8: in the popup with smart mode off, a wheel tick commits as active_preset
\* the nearest preset in the scroll direction (insertion order, wrapping) that
\* is eligible, a preset being eligible when its active flag is true or its
\* name is Default; if none is eligible active_preset is unchanged.  With
\* smart mode on, a wheel tick leaves active_preset unchanged.
C8_PopupWheelCommitsEligible ==
    [][ (session = "popup" /\ lastOp' \in WheelOps)
        => disk'.active_preset =
              IF smart_enabled THEN disk.active_preset
              ELSE NearestEligible(disk, IF lastOp' = "wheel_fwd" THEN 1 ELSE -1) ]_vars

\* the persisted sections of the preset the preview shows
Persisted(doc) == PresetOf(doc, Shown).inner_section

\* `new` is `old` with exactly the labels a and b exchanged
ExactSwap(old, new, a, b) ==
    /\ Len(new) = Len(old)
    /\ \A n \in 1..Len(old) :
          new[n] = IF old[n] = a THEN b ELSE IF old[n] = b THEN a ELSE old[n]

\* the same nodes under the same labels, whatever the order
SameNodes(old, new) ==
    /\ {old[n].k : n \in 1..Len(old)} = {new[n].k : n \in 1..Len(new)}
    /\ \A n \in 1..Len(old) : Lookup(new, old[n].k) = old[n].v

\* the child a pointer position is on: inside the child band, at its angle
ChildAt(c) ==
    IF InBandX(c.d) /\ Truthy(hovered_children)
    THEN get_outer_sector_from_angle(FInt(c.a), active_sector, hovered_children,
                                     inner_order, inner_angles)
    ELSE None

\* C9: releasing a middle-button drag over a different sibling swaps exactly
\* the two labels in the persisted order (the dragged and the target exchange
\* indices, every other sibling keeps its index, all node data is kept);
\* releasing over the origin or outside the ring leaves the persisted
\* document unchanged; either way the drag session ends.
C9_DropSwapsExactly ==
    [][ (session = "editor" /\ lastOp' = "releaseM")
        => /\ _dragging_label' = None /\ _dragging_child' = None
           /\ _dragging_label # None =>
                 LET T == SectorAt(cursor') IN
                 IF T # None /\ T # _dragging_label
                 THEN /\ ExactSwap(Keys(Persisted(disk)), Keys(Persisted(disk')),
                                   _dragging_label, T)
                      /\ SameNodes(Persisted(disk), Persisted(disk'))
                 ELSE disk' = disk
           /\ (_dragging_label = None /\ _dragging_child # None) =>
                 LET T == ChildAt(cursor')
                     old == ChildrenOf(Persisted(disk), active_sector)
                     new == ChildrenOf(Persisted(disk'), active_sector)
                 IN
                 IF /\ T # None /\ T # _dragging_child
                    /\ HasKey(old, T) /\ HasKey(old, _dragging_child)
                 THEN /\ ExactSwap(Keys(old), Keys(new), _dragging_child, T)
                      /\ SameNodes(old, new)
                 ELSE disk' = disk ]_vars

\* C10: for each popup instance, across any sequence of left press/release,
\* double-click, right- or middle-button release and timer expiry, at most one
\* script body is executed; after a double-click or a right-button release
\* the single-click timer is stopped, so the pending command never runs.
C10_AtMostOneScript ==
    session = "popup"
        => /\ executed <= 1
           /\ lastOp \in {"double", "releaseR"} => ~ _click_timer

\* C11: whenever the popup fires a trigger (the single-click timer, a
\* right-button release or a double click on something that has a script),
\* the popup is closed and the mouse grab released afterwards, whether the
\* script completes or raises, and no exception leaves the handler.
C11_TriggerAlwaysCloses ==
    [][ (session = "popup" /\ executed' = executed + 1)
            => (~ visible' /\ ~ grabbed' /\ ~ raised') ]_vars

\* C12: no reachable sequence of pointer moves, wheel ticks, clicks and editor
\* operations makes a handler fail on a missing lookup: when a referenced
\* sector, parent or preview preset is gone, the handler completes normally.
\* (No script runs in the preset-cycling machine, so a handler left by an
\* exception there is a failed lookup.)
C12_NoLookupFailure == ~ raised

\* the eventFilter calls of the last dispatch that met the event itself (not a
\* synthesized copy)
OriginalCalls == {i \in 1..Len(det_log.calls) : det_log.calls[i].original}

\* how many times popup m's release handler ran in the last dispatch
ReleaseRuns(m) == Cardinality({i \in 1..Len(det_log.handled) : det_log.handled[i] = m})

\* C13: a detector swallows a right-button press and opens a popup if and
\* only if it is enabled, not shutting down, no modifier key is held and the
\* press is inside the viewport; the popup it tracked before (if any) is then
\* closed and the new popup is the one it tracks.  In every other case the
\* press is passed on and the detector creates no popup.
C13_PressOpensIffAccepted ==
    lastOp = "rmb_press" =>
        \A i \in 1..Len(det_log.calls) :
            LET c == det_log.calls[i] IN
            /\ c.result <=> (c.on /\ ~ det_log.modifier /\ det_log.in_viewport)
            /\ c.result =>
                  /\ c.created # NoMenu /\ menus[c.created].open
                  /\ detectors[c.det]._radial = c.created
                  /\ c.popup # NoMenu => ~ menus[c.popup].open
            /\ ~ c.result =>
                  /\ c.created = NoMenu
                  /\ detectors[c.det]._radial = c.popup

\* C13 happens: a press was swallowed by a detector that tracked an open
\* popup, and another press was passed on inside the viewport
C13_ReplacedOpenPopup ==
    /\ lastOp = "rmb_press"
    /\ \E i \in 1..Len(det_log.calls) :
          /\ det_log.calls[i].result
          /\ det_log.calls[i].popup_open
          /\ ~ menus[det_log.calls[i].popup].open

\* C14: on a right-button release while a detector tracks an open popup, the
\* popup's release handler runs exactly once for that release, the detector
\* consumes the release and afterwards tracks no popup; a detector that tracks
\* no popup passes the release on.
C14_ReleaseForwardedOnce ==
    lastOp = "rmb_release" =>
        \A i \in OriginalCalls :
            LET c == det_log.calls[i] IN
            /\ c.popup_open =>
                  /\ ReleaseRuns(c.popup) = 1
                  /\ c.result
                  /\ detectors[c.det]._radial = NoMenu
            /\ c.popup = NoMenu => ~ c.result

\* the same asked only of a detector that is enabled and not shutting down:
\* it fails as well, once two detectors are installed and the second one takes
\* the synthesized release
C14_ReleaseForwardedOnceWhenOn ==
    lastOp = "rmb_release" =>
        \A i \in OriginalCalls :
            LET c == det_log.calls[i] IN
            /\ (c.popup_open /\ c.on) =>
                  /\ ReleaseRuns(c.popup) = 1
                  /\ c.result
                  /\ detectors[c.det]._radial = NoMenu
            /\ c.popup = NoMenu => ~ c.result

\* C15: after any sequence of install_rmb_hold_detector, launch_or_toggle_radial,
\* refresh_radial_menu and uninstall_radial_menu calls from either module, at
\* most one detector is installed as an application event filter.
C15_OneDetectorInstalled == Len(app_filters) <= 1

\* C16: in every reachable persisted document, active_preset names an
\* existing entry of presets, after any sequence of create_preset,
\* delete_preset, set_active_preset, set_preset_active, popup wheel commits
\* and smart-preset switches from a document that contains Default.
C16_ActivePresetExists == HasKey(disk.presets, disk.active_preset)

\* C16 happens: the active preset itself was deleted and Default took over
C16_ActiveDeletedFellBack ==
    /\ lastOp = "delete_preset"
    /\ ret.value = "True"
    /\ ret.before.active_preset = ret.name
    /\ ~ HasKey(disk.presets, ret.name)
    /\ disk.active_preset = "Default"

\* C17: the Default preset can never be deactivated: no sequence of store
\* operations leaves presets.Default.active = false in the persisted document.
C17_DefaultStaysActive ==
    HasKey(disk.presets, "Default") /\ PresetOf(disk, "Default").active

\* C18: delete_preset("Default") returns failure from every reachable
\* document, and the persisted document after the call is the document before
\* the call.
C18_DeleteDefaultRefused ==
    (lastOp = "delete_preset" /\ ret.name = "Default")
        => (ret.value = "False" /\ disk = ret.before)

\* C18 happens: delete_preset("Default") was called while another preset was
\* the active one
C18_DeleteDefaultTried ==
    /\ lastOp = "delete_preset" /\ ret.name = "Default"
    /\ ret.value = "False"
    /\ ret.before.active_preset # "Default"
    /\ HasKey(disk.presets, "Default")

\* C19: create_preset with a name that already exists returns failure and
\* leaves the persisted document unchanged (the number of presets, their order
\* and their contents), whether or not clone_from is given.
C19_DuplicateCreateRefused ==
    (lastOp = "create_preset" /\ HasKey(ret.before.presets, ret.name))
        => (ret.value = "False" /\ disk = ret.before)

\* C19 happens: a duplicate name was given together with an existing source
C19_DuplicateCloneTried ==
    /\ lastOp = "create_preset"
    /\ HasKey(ret.before.presets, ret.name)
    /\ ret.clone_from # None /\ HasKey(ret.before.presets, ret.clone_from)
    /\ ret.value = "False"

\* C20: every preset created by a successful create_preset has active = true,
\* whether seeded with the starter sector or cloned from any existing preset
\* (an inactive one included); a clone has the source's inner_section and
\* colour.
C20_CreatedPresetActive ==
    (lastOp = "create_preset" /\ ret.value = "True")
        => /\ HasKey(disk.presets, ret.name)
           /\ PresetOf(disk, ret.name).active
           /\ (ret.clone_from # None /\ HasKey(ret.before.presets, ret.clone_from))
                 => /\ PresetOf(disk, ret.name).inner_section
                          = PresetOf(ret.before, ret.clone_from).inner_section
                    /\ PresetOf(disk, ret.name).colour
                          = PresetOf(ret.before, ret.clone_from).colour

\* C21: loading a legacy document (no "presets" key) yields, in memory and on
\* disk, a document whose presets.Default.inner_section is the legacy
\* inner_section (same labels, order and node data; empty when the legacy
\* document had none) and whose active_preset is "Default".
C21_LegacyWrapped ==
    (lastOp = "_load_data" /\ ~ ld.before.has_presets)
        => \A doc \in {data, json_load(file)} :
              /\ doc.active_preset = Given("Default")
              /\ HasKey(doc.presets, "Default")
              /\ Lookup(doc.presets, "Default").inner_section
                    = Given(json_load(ld.before).inner_section.val)

\* C21 happens: a legacy document with sectors (and a ui block) was loaded
C21_LegacyLoaded ==
    /\ lastOp = "_load_data"
    /\ ~ ld.before.has_presets
    /\ ld.before.inner_section = Given(DefaultSections)
    /\ ld.before.ui.has

\* C22: load is an idempotent normalisation: when the file holds what
\* _load_data returned (because _load_data wrote it, or because the result was
\* saved), loading again returns the same document and leaves the file as it is.
C22_LoadIdempotent ==
    [][ (lastOp' = "_load_data" /\ ld.loaded /\ file = json_dump(data))
            => (data' = data /\ file' = file) ]_vars

\* C22 happens: a load that had repairs to make, a save of its result, and a
\* second load
C22_ReloadedAfterSave ==
    /\ lastOp = "_load_data"
    /\ ld.after = "_save_data"
    /\ ld.repaired_before
    /\ ld.before = json_dump(data)

\* C23: whenever _load_data has to migrate or backfill anything, it writes the
\* result back: after it returns, the persisted document is the document it
\* returned.
C23_LoadWritesBack ==
    lastOp = "_load_data" => json_load(file) = data

\* C29: in every persisted document reachable through load and the editor's
\* size controls, inner_hole_radius < radius, and radius, ring_gap,
\* outer_ring_width and inner_hole_radius are all >= 0.
C29_HoleInsideRadius ==
    LET size == file.ui.size IN
    /\ (size.radius.has /\ size.inner_hole_radius.has)
          => size.inner_hole_radius.val < size.radius.val
    /\ size.radius.val >= 0 /\ size.ring_gap.val >= 0
    /\ size.outer_ring_width.val >= 0 /\ size.inner_hole_radius.val >= 0

\* the child get_outer_sector_from_angle finds with the pointer exactly at the
\* angle of the i-th sector while that sector's children are displayed
ChildAtCentre(i) ==
    get_outer_sector_from_angle(inner_angles[i], inner_order[i],
                                Kids(ChildrenOf(inner_sections, inner_order[i])),
                                inner_order, inner_angles)

\* the pointer is in the child band exactly at the angle of the active sector,
\* whose children are displayed and are even in number
AtCentreOfEven ==
    /\ lastOp = "move" /\ InBand(cursor.d)
    /\ active_sector # None /\ Truthy(hovered_children)
    /\ Len(hovered_children.kids) % 2 = 0
    /\ FInt(cursor.a) = inner_angles[IndexOf(inner_order, active_sector)]

C25_SecondClickClears ==
    [][ LET L == SectorAt(cursor')
        IN (/\ session = "editor" /\ lastOp' = "pressL" /\ L # None
            /\ _sticky_parent = L /\ hiddenType = "inner" /\ hiddenLabel = L)
           => /\ active_sector' = None
              /\ ~ Truthy(hovered_children')
              /\ _sticky_parent' = None
              /\ label_lineEdit' = "" /\ descEditor' = ""
              /\ scriptEditor' = "" /\ releaseEditor' = "" /\ doubleEditor' = ""
              /\ hiddenLabel' = "" /\ hiddenType' = "" /\ hiddenParent' = "" ]_vars

\* C25 happens: the document was never edited, and a left click on a sector
\* took the toggle-off branch: the click before it had locked that sector
C25_ClickedLockedSector ==
    /\ session = "editor" /\ lastOp = "pressL" /\ writes = 0
    /\ SectorAt(cursor) = "N"
    /\ _sticky_parent = None /\ active_sector = None
    /\ hiddenLabel = "" /\ scriptEditor = ""

\* C26: a right-click on a displayed child wedge opens the menu on exactly
\* the child the hover highlights there, under the parent whose children are
\* displayed; Copy puts that child on the clipboard and Remove deletes it.
C26_MenuOnHoveredChild ==
    [][ (lastOp = "move" /\ lastOp' = "context" /\ cursor' = cursor
            /\ outer_active_sector # None) =>
        /\ ctx'.zone = "child"
        /\ ctx'.parent = active_sector
        /\ ctx'.child = outer_active_sector
        /\ ctx'.op = "copy" => _CLIPBOARD'.label = outer_active_sector
        /\ ctx'.op = "remove" =>
              ~ HasKey(ChildrenOf(inner_sections', active_sector), outer_active_sector)
      ]_vars

\* the label a paste of `base` must take among the keys: base if it is free,
\* else base_N for the first N = 1, 2, ... that is free
IsFirstFree(label, base, keys) ==
    \/ label = base /\ ~ InSeq(keys, base)
    \/ /\ InSeq(keys, base)
       /\ \E N \in 1..(MaxEdits + 1) :
             /\ label = base \o "_" \o ToString(N)
             /\ ~ InSeq(keys, label)
             /\ \A j \in 1..(N - 1) : InSeq(keys, base \o "_" \o ToString(j))

\* the sibling map `new` is `old` with one entry appended and nothing else touched
OneAdded(old, new) ==
    /\ Len(new) = Len(old) + 1
    /\ SubSeq(new, 1, Len(old)) = old
    /\ ~ HasKey(old, new[Len(new)].k)

\* the four texts of two nodes are the same
SameTexts(a, b) ==
    /\ a.description = b.description /\ a.command = b.command
    /\ a.on_release = b.on_release /\ a.on_double = b.on_double

\* C27: a paste never overwrites: every sibling that was there keeps its place
\* and data, exactly one entry is added, under a label that was free (the
\* copied label + "_copy", then _1, _2, ... until free), holding the copied
\* node with its children; nothing else of the document changes.
C27_PasteAddsOne ==
    [][ (lastOp' = "context" /\ ctx'.op = "paste") =>
        LET pname == _get_preset_for_write(disk)
            old == PresetOf(disk, pname).inner_section
            new == PresetOf(disk', pname).inner_section
            base == _CLIPBOARD.label \o "_copy"
        IN  IF ctx'.zone = "inner" THEN
               /\ OneAdded(old, new)
               /\ IsFirstFree(new[Len(new)].k, base, Keys(old))
               /\ SameTexts(new[Len(new)].v, _CLIPBOARD.payload)
               /\ new[Len(new)].v.children = _CLIPBOARD.payload.children
               /\ disk' = WithSections(disk, pname, new)
            ELSE
               LET okids == ChildrenOf(old, ctx'.parent)
                   nkids == ChildrenOf(new, ctx'.parent)
               IN  /\ OneAdded(okids, nkids)
                   /\ IsFirstFree(nkids[Len(nkids)].k, base, Keys(okids))
                   /\ nkids[Len(nkids)].v = AsLeaf(_CLIPBOARD.payload)
                   /\ new = WithChildren(old, ctx'.parent, nkids)
                   /\ disk' = WithSections(disk, pname, new)
      ]_vars

\* a sector with children was pasted twice and a child was pasted onto a
\* taken label: the second copy took the suffix _1
C27_PastedTwice ==
    /\ lastOp = "context" /\ ctx.op = "paste" /\ writes = MaxEdits
    /\ \/ /\ HasKey(inner_sections, "N_copy_1")
          /\ Len(NodeOf(inner_sections, "N_copy_1").children) = 2
          /\ HasKey(inner_sections, "N_copy")
       \/ \E q \in 1..Len(inner_sections) :
             /\ HasKey(inner_sections[q].v.children, "new_child_copy_1")
             /\ HasKey(inner_sections[q].v.children, "new_child_copy")

\* the sibling map `new` is `old` with the key cur replaced by typed: the same
\* number of entries, every sibling as it was, the renamed entry at its index
RenamedInPlace(old, new, cur, typed) ==
    /\ Len(new) = Len(old)
    /\ \A i \in 1..Len(old) :
          i <= Len(new) /\
          IF old[i].k = cur
          THEN new[i].k = typed
          ELSE new[i] = old[i]

\* C28: a save under a non-empty label keeps the node: it is found under the
\* new label at the index it had, with its children; every sibling keeps its
\* label, data and index; the number of siblings is unchanged.
C28_RenameKeepsNode ==
    [][ (lastOp' = "save_sectorInfo" /\ ctx'.label # "" /\ writes' = writes + 1) =>
        LET old == PresetOf(disk, preset_combo).inner_section
            new == PresetOf(disk', preset_combo).inner_section
        IN  IF hiddenType = "inner" THEN
               /\ RenamedInPlace(old, new, hiddenLabel, ctx'.label)
               /\ ChildrenOf(new, ctx'.label) = ChildrenOf(old, hiddenLabel)
            ELSE
               /\ RenamedInPlace(ChildrenOf(old, hiddenParent),
                                 ChildrenOf(new, hiddenParent), hiddenLabel, ctx'.label)
               /\ Keys(new) = Keys(old)
      ]_vars

\* C30: after every edit of the document made through the editor the preview
\* displays the sections that are on disk for the preset being edited.
C30_DisplayIsDisk ==
    writes > 0 =>
        inner_sections = PresetOf(disk, _get_preset_for_write(disk)).inner_section

\* C31: while an inner or a child drag is active, a pointer move inside the
\* inner hole changes neither active_sector, hovered_children nor the fields
\* of the drag.
C31_DragImmuneToHole ==
    [][ (lastOp' = "move" /\ cursor'.d < inner_hole
            /\ (_dragging_label # None \/ _dragging_child # None)) =>
        UNCHANGED << active_sector, hovered_children, dragVars >>
      ]_vars

\* the angles the child arcs are probed at: every 5 degrees
Probes == {5 * q : q \in 0..71}

\* C32: the arcs [start_i, start_i + step) of the displayed children are
\* pairwise disjoint: no angle is in the arcs of two children.
C32_BandsDisjoint ==
    (lastOp = "move" /\ spins.open /\ Truthy(hovered_children) /\ active_sector # None) =>
        \A a \in Probes :
            Cardinality(ChildHits(FInt(a),
                ChildArcsWith(inner_angles[IndexOf(inner_order, active_sector)],
                              Len(hovered_children.kids),
                              StepOf(spins.child_angle_mult)))) <= 1

\* the step is a wheel tick the editor preview accepted, or a preset picked in
\* the editor's combo box
Previewed ==
    /\ session = "editor"
    /\ \/ lastOp' = "commit"
       \/ /\ lastOp' \in {"wheel_fwd", "wheel_back"}
          /\ _dragging_label = None /\ _dragging_child = None
          /\ cursor'.d <= outer_radius
          /\ Len(list_presets(disk)) > 1

\* C33: after every preset change or wheel preview in the editor nothing of
\* the previous preset's selection is left: no sticky parent or child, empty
\* editor fields, and the hover is empty or on a sector of the preset now shown.
C33_PreviewClearsSelection ==
    [][ Previewed =>
        /\ _sticky_parent' = None /\ _sticky_child' = None
        /\ hiddenLabel' = "" /\ hiddenType' = "" /\ hiddenParent' = ""
        /\ label_lineEdit' = "" /\ scriptEditor' = "" /\ releaseEditor' = ""
        /\ doubleEditor' = "" /\ descEditor' = ""
        /\ inner_sections' = PresetOf(disk', preset_combo').inner_section
        /\ active_sector' = None \/ HasKey(inner_sections', active_sector')
        /\ \/ hovered_children'.kids = <<>>
           \/ /\ active_sector' # None
              /\ hovered_children'.kids = ChildrenOf(inner_sections', active_sector')
      ]_vars

\* a wheel tick took the preview from a preset with a locked sector to preset
\* B, and the hover is on B's sector
C33_PreviewedOntoSector ==
    /\ session = "editor"
    /\ lastOp \in {"wheel_fwd", "wheel_back"}
    /\ _preview_name = "B" /\ preset_combo = "B"
    /\ active_sector = "X"
    /\ inner_sections = BSections

\* C34: an inner drag and a child drag are never active together, and after a
\* middle-button release no drag is left (no dragged label or child, no hover
\* target).
C34_OneDragKind ==
    /\ ~ (_dragging_label # None /\ _dragging_child # None)
    /\ lastOp = "releaseM" =>
          /\ _dragging_label = None /\ _drag_hover_target = None
          /\ _dragging_child = None /\ _child_drag_hover_target = None

\* the sibling maps a and b hold the same labels with the same data (for
\* sectors: the same texts and the same children with the same data)
SameChildren(a, b) ==
    /\ Len(a) = Len(b)
    /\ \A j \in 1..Len(a) : HasKey(b, a[j].k) /\ Lookup(b, a[j].k) = a[j].v

SameSectors(a, b) ==
    /\ Len(a) = Len(b)
    /\ \A j \in 1..Len(a) :
          /\ HasKey(b, a[j].k)
          /\ SameTexts(Lookup(b, a[j].k), a[j].v)
          /\ SameChildren(a[j].v.children, Lookup(b, a[j].k).children)

\* C35: a middle-button drag only permutes: after the release every preset
\* has the sector labels, the child labels under each sector and the node data
\* it had before, also when the stored active preset was changed meanwhile.
C35_DragOnlyPermutes ==
    [][ (session = "editor" /\ lastOp' = "releaseM") =>
        /\ Len(disk'.presets) = Len(disk.presets)
        /\ \A i \in 1..Len(disk.presets) :
              /\ disk'.presets[i].k = disk.presets[i].k
              /\ SameSectors(disk.presets[i].v.inner_section,
                           disk'.presets[i].v.inner_section)
      ]_vars

\* C36: in the popup and in the editor preview, whenever hovered_children is
\* non-empty, active_sector names a sector of the displayed sections and
\* hovered_children is exactly that sector's children; and whenever
\* outer_active_sector is set, it is a label of hovered_children.
C36_HoverConsistent ==
    /\ Truthy(hovered_children) =>
          /\ active_sector # None
          /\ HasKey(inner_sections, active_sector)
          /\ hovered_children.kids = ChildrenOf(inner_sections, active_sector)
    /\ outer_active_sector # None => HasKey(hovered_children.kids, outer_active_sector)

\* C37: in the popup, a left click on a displayed child wedge arms the script
\* of the child that hover highlights at that position (outer_active_sector
\* under the anchored parent), for every pointer angle inside the child arc,
\* also where the arc lies in a neighbouring sector's wedge.
C37_ClickFiresHoveredChild ==
    [][ (/\ session = "popup" /\ lastOp = "move" /\ lastOp' = "pressL"
         /\ cursor' = cursor /\ InBandX(cursor.d)
         /\ outer_active_sector # None)
        => /\ ~ raised'
           /\ _pending_click_sector'.kind = "child"
           /\ _pending_click_sector'.key = outer_active_sector
           /\ _pending_click_sector'.info =
                 InfoOf(Lookup(ChildrenOf(inner_sections, _parent_anchor),
                               outer_active_sector))
      ]_vars

\* C38: a pointer inside the inner hole (distance < inner_hole) is over no
\* sector for every kind of input: a left click there locks no sector in the
\* editor and arms or fires no script in the popup, and a middle-button press
\* there starts no drag.
C38_HoleIsNoSector ==
    [][ cursor'.d < inner_hole =>
        /\ (session = "editor" /\ lastOp' = "pressL")
              => _sticky_parent' \in {None, _sticky_parent}
        /\ (session = "popup" /\ lastOp' = "pressL")
              => ~ _pending_click_sector'.info.has
        /\ (session = "popup" /\ lastOp' = "double") => executed' = executed
        /\ (session = "editor" /\ lastOp' = "pressM")
              => _dragging_label' = _dragging_label /\ _dragging_child' = _dragging_child
      ]_vars

\* the editor commands that change the structure of a preset
EditOps == {"releaseM", "context", "save_sectorInfo", "add_child_to_active", "add_inner"}

\* the presets whose stored sectors are the ones the preview displays
Displayed ==
    {n \in 1..Len(disk.presets) : disk.presets[n].v.inner_section = inner_sections}

\* C39: every structural edit made in the editor (add, remove, paste, reorder,
\* rename) changes only the preset whose sectors the preview displays: every
\* other preset and active_preset are the same in the persisted document
\* before and after the edit.
C39_EditsOnlyDisplayed ==
    [][ (session = "editor" /\ lastOp' \in EditOps /\ Displayed # {}) =>
        /\ disk'.active_preset = disk.active_preset
        /\ Len(disk'.presets) = Len(disk.presets)
        /\ \A n \in 1..Len(disk.presets) :
              n \notin Displayed => disk'.presets[n] = disk.presets[n]
      ]_vars

\* C40: the sticky lock is always valid: in every editor state, if
\* _sticky_parent is set it names a sector of the displayed sections, and if
\* _sticky_child is set then _sticky_parent is set and _sticky_child is one of
\* its children.
C40_StickyValid ==
    session = "editor" =>
        /\ _sticky_parent # None => HasKey(inner_sections, _sticky_parent)
        /\ _sticky_child # None =>
              /\ _sticky_parent # None
              /\ HasKey(ChildrenOf(inner_sections, _sticky_parent), _sticky_child)

====
